---- MODULE Spec2Model ----
(***************************************************************************)
(* A model of the heuristic classification core of epub-recipe-parser:    *)
(* the quality scorer, the recipe validator, the component extractors'    *)
(* zone selection and the extraction pipeline that wires them together.   *)
(*                                                                         *)
(* Text is modelled by TLA+ strings.  The regular expressions of the       *)
(* source are written as syntax trees and run by a small backtracking      *)
(* matcher (Ends) that returns the end positions of a match in the order   *)
(* in which Python's re module would try them.                             *)
(***************************************************************************)
EXTENDS Integers, Sequences, FiniteSets, TLC

None == "<None>"

(***************************************************************************)
(* Strings                                                                 *)
(***************************************************************************)
Char(s, i) == SubSeq(s, i, i)

Min(a, b) == IF a < b THEN a ELSE b
Max(a, b) == IF a > b THEN a ELSE b

Digits == {"0", "1", "2", "3", "4", "5", "6", "7", "8", "9"}
LowerLetters ==
    {"a", "b", "c", "d", "e", "f", "g", "h", "i", "j", "k", "l", "m",
     "n", "o", "p", "q", "r", "s", "t", "u", "v", "w", "x", "y", "z", "é"}
UpperLetters ==
    {"A", "B", "C", "D", "E", "F", "G", "H", "I", "J", "K", "L", "M",
     "N", "O", "P", "Q", "R", "S", "T", "U", "V", "W", "X", "Y", "Z"}
\* the vulgar fractions of the source's character classes that the model's
\* texts can contain
Fractions == {"¼", "½", "¾"}
\* \w, \s of Python's re (on the characters the model's texts use)
WordChars == Digits \cup LowerLetters \cup UpperLetters \cup {"_"} \cup Fractions
Spaces == {" ", "\n", "\t"}

\* str.lower() on one character
LowerChar(c) ==
    CASE c = "A" -> "a" [] c = "B" -> "b" [] c = "C" -> "c" [] c = "D" -> "d"
      [] c = "E" -> "e" [] c = "F" -> "f" [] c = "G" -> "g" [] c = "H" -> "h"
      [] c = "I" -> "i" [] c = "J" -> "j" [] c = "K" -> "k" [] c = "L" -> "l"
      [] c = "M" -> "m" [] c = "N" -> "n" [] c = "O" -> "o" [] c = "P" -> "p"
      [] c = "Q" -> "q" [] c = "R" -> "r" [] c = "S" -> "s" [] c = "T" -> "t"
      [] c = "U" -> "u" [] c = "V" -> "v" [] c = "W" -> "w" [] c = "X" -> "x"
      [] c = "Y" -> "y" [] c = "Z" -> "z" [] OTHER -> c

\* str.lower(), by halving so that the recursion stays shallow
RECURSIVE Lower(_)
Lower(s) ==
    IF Len(s) = 0 THEN ""
    ELSE IF Len(s) = 1 THEN LowerChar(s)
    ELSE LET h == Len(s) \div 2
         IN  Lower(SubSeq(s, 1, h)) \o Lower(SubSeq(s, h + 1, Len(s)))

\* str.strip(): drop leading and trailing whitespace
RECURSIVE LStripFrom(_, _)
LStripFrom(s, i) ==
    IF i <= Len(s) /\ Char(s, i) \in Spaces THEN LStripFrom(s, i + 1) ELSE i
RECURSIVE RStripFrom(_, _)
RStripFrom(s, j) ==
    IF j >= 1 /\ Char(s, j) \in Spaces THEN RStripFrom(s, j - 1) ELSE j
Strip(s) ==
    LET i == LStripFrom(s, 1)
        j == RStripFrom(s, Len(s))
    IN  IF i > j THEN "" ELSE SubSeq(s, i, j)

\* `sub in s`
Contains(s, sub) ==
    \E i \in 1..(Len(s) - Len(sub) + 1) : SubSeq(s, i, i + Len(sub) - 1) = sub

\* s.startswith(p)
StartsWith(s, p) == Len(p) <= Len(s) /\ SubSeq(s, 1, Len(p)) = p

\* s.count(c) for a single character c
CountChar(s, c) == Cardinality({i \in 1..Len(s) : Char(s, i) = c})

\* the elements of a finite set of integers in increasing order
RECURSIVE SortedSeq(_)
SortedSeq(S) ==
    IF S = {} THEN <<>>
    ELSE LET m == CHOOSE a \in S : \A b \in S : a <= b
         IN  <<m>> \o SortedSeq(S \ {m})

\* s.split("\n")
SplitLines(s) ==
    LET nl == SortedSeq({i \in 1..Len(s) : Char(s, i) = "\n"})
        cut == <<0>> \o nl \o <<Len(s) + 1>>
    IN  [k \in 1..(Len(nl) + 1) |-> SubSeq(s, cut[k] + 1, cut[k + 1] - 1)]

\* [line.strip() for line in s.split("\n") if line.strip()]
StrippedLines(s) ==
    LET raw == SplitLines(s)
        keep == SelectSeq(raw, LAMBDA l : Strip(l) # "")
    IN  [k \in 1..Len(keep) |-> Strip(keep[k])]

\* "\n".join(lines)
RECURSIVE JoinLines(_)
JoinLines(ls) ==
    IF Len(ls) = 0 THEN ""
    ELSE IF Len(ls) = 1 THEN ls[1]
    ELSE ls[1] \o "\n" \o JoinLines(Tail(ls))

\* n copies of a line, one per line
Repeat(line, n) == JoinLines([k \in 1..n |-> line])

(***************************************************************************)
(* Regular expressions                                                     *)
(***************************************************************************)
Lit(s) == [k |-> "lit", s |-> s]
Cls(cs) == [k |-> "cls", cs |-> cs]
NotCls(cs) == [k |-> "ncls", cs |-> cs]
Cat(rs) == [k |-> "cat", rs |-> rs]
Alt(rs) == [k |-> "alt", rs |-> rs]
Opt(r) == [k |-> "opt", r |-> r]
Star(r) == [k |-> "star", r |-> r]
Plus(r) == [k |-> "cat", rs |-> <<r, [k |-> "star", r |-> r]>>]
\* r+? for a character class r: the shortest run first
LazyPlus(r) == [k |-> "lazyplus", r |-> r]
WordB == [k |-> "wb"]
Bol == [k |-> "bol"]
Eol == [k |-> "eol"]
\* an alternation of literal words: (?:w1|w2|...)
Words(ws) == [k |-> "alt", rs |-> [n \in 1..Len(ws) |-> Lit(ws[n])]]

IsWordAt(t, i) == i >= 1 /\ i <= Len(t) /\ Char(t, i) \in WordChars
\* \b at position i (between character i-1 and character i)
AtWordBoundary(t, i) == IsWordAt(t, i - 1) # IsWordAt(t, i)
\* $ : at the end, or just before a final newline
AtEnd(t, i) == i = Len(t) + 1 \/ (i = Len(t) /\ Char(t, i) = "\n")

\* append the elements of b that a does not have, keeping the order
RECURSIVE AppendNew(_, _)
AppendNew(a, b) ==
    IF Len(b) = 0 THEN a
    ELSE IF \E n \in 1..Len(a) : a[n] = b[1]
         THEN AppendNew(a, Tail(b))
         ELSE AppendNew(Append(a, b[1]), Tail(b))

\* Ends(r, t, i): the positions where a match of r that starts at position i
\* of t can end, in the order in which a backtracking matcher tries them.
RECURSIVE Ends(_, _, _)
RECURSIVE CatEnds(_, _, _, _)
RECURSIVE AltEnds(_, _, _, _)
RECURSIVE EndsFromAll(_, _, _)

\* the ends of r started at each of the positions of `starts`, in order
EndsFromAll(r, t, starts) ==
    IF Len(starts) = 0 THEN <<>>
    ELSE AppendNew(Ends(r, t, starts[1]), EndsFromAll(r, t, Tail(starts)))

CatEnds(rs, n, t, starts) ==
    IF n > Len(rs) \/ Len(starts) = 0 THEN starts
    ELSE CatEnds(rs, n + 1, t, EndsFromAll(rs[n], t, starts))

\* the alternatives that match at i, tried in their order: ns is the
\* increasing sequence of their indices
AltEnds(rs, ns, t, i) ==
    IF Len(ns) = 0 THEN <<>>
    ELSE AppendNew(Ends(rs[ns[1]], t, i), AltEnds(rs, Tail(ns), t, i))

Ends(r, t, i) ==
    CASE r.k = "lit" ->
           IF i + Len(r.s) - 1 <= Len(t) /\ SubSeq(t, i, i + Len(r.s) - 1) = r.s
           THEN <<i + Len(r.s)>> ELSE <<>>
      [] r.k = "cls" ->
           IF i <= Len(t) /\ Char(t, i) \in r.cs THEN <<i + 1>> ELSE <<>>
      [] r.k = "ncls" ->
           IF i <= Len(t) /\ Char(t, i) \notin r.cs THEN <<i + 1>> ELSE <<>>
      [] r.k = "cat" -> CatEnds(r.rs, 1, t, <<i>>)
      [] r.k = "alt" ->
           AltEnds(r.rs,
                   SortedSeq({n \in 1..Len(r.rs) : Len(Ends(r.rs[n], t, i)) > 0}),
                   t, i)
      [] r.k = "opt" -> AppendNew(Ends(r.r, t, i), <<i>>)
      [] r.k = "star" ->
           LET once == SelectSeq(Ends(r.r, t, i), LAMBDA j : j > i)
           IN  AppendNew(EndsFromAll(r, t, once), <<i>>)
      [] r.k = "lazyplus" ->
           LET stops == {j \in i..(Len(t) + 1) : Len(Ends(r.r, t, j)) = 0}
               stop == CHOOSE j \in stops : \A m \in stops : j <= m
           IN  [n \in 1..(stop - i) |-> i + n]
      [] r.k = "wb" -> IF AtWordBoundary(t, i) THEN <<i>> ELSE <<>>
      [] r.k = "bol" -> IF i = 1 THEN <<i>> ELSE <<>>
      [] r.k = "eol" -> IF AtEnd(t, i) THEN <<i>> ELSE <<>>

\* re.match(r, t): a match that starts at the beginning of t
ReMatch(r, t) == Len(Ends(r, t, 1)) > 0
\* re.search(r, t): a match that starts anywhere in t
ReSearch(r, t) == \E i \in 1..(Len(t) + 1) : Len(Ends(r, t, i)) > 0

\* len(r.findall(t)): matches are taken leftmost first and do not overlap;
\* after an empty match the scan moves on by one character.
RECURSIVE CountMatchesFrom(_, _, _, _)
CountMatchesFrom(r, t, starts, i) ==
    LET later == {j \in starts : j >= i}
    IN  IF later = {} THEN 0
        ELSE LET j == CHOOSE a \in later : \A b \in later : a <= b
                 e == Ends(r, t, j)[1]
             IN  1 + CountMatchesFrom(r, t, starts, IF e > j THEN e ELSE j + 1)
FindallCount(r, t) ==
    CountMatchesFrom(r, t, {i \in 1..(Len(t) + 1) : Len(Ends(r, t, i)) > 0}, 1)

(***************************************************************************)
(* Python values: a field of a Recipe holds None, a str or (when an        *)
(* extractor's result pair is stored as it is) a tuple.                    *)
(***************************************************************************)
PyNone == [kind |-> "none"]
PyStr(s) == [kind |-> "str", s |-> s]
PyTuple(text, meta) == [kind |-> "tuple", text |-> text, meta |-> meta]

\* bool(v): None and "" are false, a tuple of two elements is true
Truthy(v) ==
    CASE v.kind = "none" -> FALSE
      [] v.kind = "str" -> v.s # ""
      [] v.kind = "tuple" -> TRUE

(***************************************************************************)
(* core/quality.py                                                         *)
(***************************************************************************)
\* r"^[-*\d]+[\.)]\s"
StructuredLinePattern ==
    Cat(<<Plus(Cls({"-", "*"} \cup Digits)), Cls({".", ")"}), Cls(Spaces)>>)

\* r"^\d+[\.)]\s"
NumberedStepLinePattern ==
    Cat(<<Plus(Cls(Digits)), Cls({".", ")"}), Cls(Spaces)>>)

\* measurement_indicators of score_ingredients (re.IGNORECASE: applied to
\* the lowered text)
MeasurementIndicators ==
    << Cat(<<Plus(Cls(Digits)), Star(Cls(Spaces)),
             Words(<<"cup", "tablespoon", "teaspoon", "tbsp", "tsp", "oz",
                     "lb", "gram", "kg", "ml", "liter">>),
             Opt(Lit("s"))>>),
       Cat(<<Plus(Cls(Digits)), Star(Cls(Spaces)),
             Words(<<"clove", "slice", "head", "bunch", "sprig", "stalk",
                     "can", "jar">>),
             Opt(Lit("s"))>>),
       Cls(Fractions) >>

\* cooking_verbs of score_instructions
ScorerCookingVerbs ==
    {"heat", "cook", "mix", "stir", "combine", "add", "place", "remove",
     "transfer", "bake", "roast", "grill", "fry", "boil", "simmer", "season"}

score_ingredients(ingredients) ==
    IF ingredients = "" THEN 0
    ELSE
    LET length == Len(ingredients)
        lengthPts == IF length >= 300 THEN 15
                     ELSE IF length >= 200 THEN 12
                     ELSE IF length >= 100 THEN 9
                     ELSE IF length >= 50 THEN 6
                     ELSE 3
        lines == StrippedLines(ingredients)
        structured_lines ==
            Cardinality({n \in 1..Len(lines) : ReMatch(StructuredLinePattern, lines[n])})
        \* structure_ratio = structured_lines / len(lines), compared exactly
        structurePts ==
            IF Len(lines) = 0 THEN 0
            ELSE IF 10 * structured_lines >= 7 * Len(lines) THEN 15
            ELSE IF 10 * structured_lines >= 4 * Len(lines) THEN 10
            ELSE IF 10 * structured_lines >= 2 * Len(lines) THEN 5
            ELSE 0
        ingredient_count == Cardinality({n \in 1..Len(lines) : Len(lines[n]) > 5})
        countPts == IF ingredient_count >= 10 THEN 10
                    ELSE IF ingredient_count >= 7 THEN 8
                    ELSE IF ingredient_count >= 5 THEN 6
                    ELSE IF ingredient_count >= 3 THEN 4
                    ELSE IF ingredient_count >= 1 THEN 2
                    ELSE 0
        lowered == Lower(ingredients)
        has_measurements ==
            \E n \in 1..Len(MeasurementIndicators) :
                ReSearch(MeasurementIndicators[n], lowered)
        measurePts == IF has_measurements THEN 5 ELSE 0
    IN  Min(lengthPts + structurePts + countPts + measurePts, 45)

score_instructions(instructions) ==
    IF instructions = "" THEN 0
    ELSE
    LET length == Len(instructions)
        lengthPts == IF length >= 500 THEN 15
                     ELSE IF length >= 300 THEN 12
                     ELSE IF length >= 200 THEN 9
                     ELSE IF length >= 100 THEN 6
                     ELSE 3
        lines == StrippedLines(instructions)
        numbered_steps ==
            Cardinality({n \in 1..Len(lines) : ReMatch(NumberedStepLinePattern, lines[n])})
        stepPts == IF numbered_steps >= 5 THEN 15
                   ELSE IF numbered_steps >= 3 THEN 12
                   ELSE IF numbered_steps >= 2 THEN 8
                   ELSE 0
        lowered == Lower(instructions)
        verb_count == Cardinality({v \in ScorerCookingVerbs : Contains(lowered, v)})
        verbPts == IF verb_count >= 8 THEN 10
                   ELSE IF verb_count >= 5 THEN 8
                   ELSE IF verb_count >= 3 THEN 5
                   ELSE IF verb_count >= 1 THEN 3
                   ELSE 0
        sentence_enders == CountChar(instructions, ".") + CountChar(instructions, "!")
                             + CountChar(instructions, "?")
        enderPts == IF sentence_enders >= 5 THEN 5
                    ELSE IF sentence_enders >= 3 THEN 3
                    ELSE IF sentence_enders >= 1 THEN 1
                    ELSE 0
    IN  Min(lengthPts + stepPts + verbPts + enderPts, 45)

\* the metadata points of score_recipe
metadata_score(recipe) ==
    (IF Truthy(recipe.serves) THEN 3 ELSE 0)
  + (IF Truthy(recipe.prep_time) THEN 2 ELSE 0)
  + (IF Truthy(recipe.cook_time) THEN 2 ELSE 0)
  + (IF Truthy(recipe.cooking_method) THEN 2 ELSE 0)
  + (IF Truthy(recipe.protein_type) THEN 1 ELSE 0)

\* `not v or len(v.strip()) < n`
MissingOrShort(v, n) == ~Truthy(v) \/ Len(Strip(v.s)) < n

\* the completeness penalty of score_recipe
completeness_penalty(recipe) ==
    (IF MissingOrShort(recipe.ingredients, 10) THEN 40 ELSE 0)
  + (IF MissingOrShort(recipe.instructions, 20) THEN 40 ELSE 0)

\* `v or ""`
OrEmpty(v) == IF Truthy(v) THEN v ELSE PyStr("")

\* score_ingredients and score_instructions call str.split on their argument:
\* a truthy value that is not a str raises AttributeError
score_recipe_raises(recipe) ==
    \/ OrEmpty(recipe.ingredients).kind # "str"
    \/ OrEmpty(recipe.instructions).kind # "str"

\* the penalty applied without the floor at 0
apply_penalty_unfloored(score, penalty) == Min(score - penalty, 100)

\* score = max(0, score - penalty); return min(score, 100)
apply_penalty(score, penalty) == Min(Max(0, score - penalty), 100)

score_recipe(recipe) ==
    apply_penalty(score_ingredients(OrEmpty(recipe.ingredients).s)
                    + score_instructions(OrEmpty(recipe.instructions).s)
                    + Min(metadata_score(recipe), 10),
                  completeness_penalty(recipe))

(***************************************************************************)
(* utils/patterns.py                                                       *)
(***************************************************************************)
Digit == Cls(Digits)
Space == Cls(Spaces)

MeasurementUnits ==
    <<"cup", "tablespoon", "teaspoon", "pound", "ounce", "gram", "kg", "lb",
      "oz", "tsp", "tbsp", "clove", "slice", "liter", "litre", "ml",
      "milliliter", "pint", "quart", "gallon", "stick", "head", "bunch",
      "sprig", "stalk", "can", "jar", "package", "box", "bag", "container">>
MeasurementSizes ==
    <<"large", "medium", "small", "whole", "fresh", "dried", "frozen",
      "good-sized">>
MeasurementItems ==
    <<"egg", "garlic", "onion", "carrot", "potato", "tomato", "pepper",
      "clove", "lemon", "lime", "orange", "basil", "parsley", "mint", "leaf",
      "leaves", "zucchini", "squash", "chicken", "apple", "pear", "banana">>

\* MEASUREMENT_PATTERN (re.IGNORECASE: applied to the lowered text)
MEASUREMENT_PATTERN ==
    Alt(<< Cat(<< Alt(<< Cat(<<WordB, Plus(Digit),
                               Opt(Cat(<<Cls({".", ","}), Plus(Digit)>>))>>),
                         Cls(Fractions) >>),
                  Opt(Cls(Spaces \cup {"/", "-"})),
                  Words(MeasurementUnits), Opt(Lit("s")), WordB >>),
           Cat(<< WordB, Plus(Digit),
                  Opt(Cat(<<Plus(Space), Lit("-"), Plus(Space), Plus(Digit)>>)),
                  Plus(Space), Opt(Words(MeasurementSizes)), Star(Space),
                  Words(MeasurementItems), Opt(Lit("s")), WordB >>) >>)

\* COOKING_VERBS_PATTERN (re.IGNORECASE: applied to the lowered text)
COOKING_VERBS_PATTERN ==
    Cat(<< WordB,
           Words(<<"heat", "cook", "grill", "place", "add", "mix", "stir",
                   "combine", "season", "serve", "roast", "smoke", "bake",
                   "prepare", "chop", "slice", "transfer", "remove", "cover",
                   "simmer", "melt", "boil", "whisk", "fold", "pour",
                   "spread", "drain", "toss", "sauté", "fry", "bring",
                   "preheat", "beat", "knead", "strain", "swirl", "watch",
                   "continue", "sprinkle", "garnish", "arrange", "chill",
                   "freeze", "refrigerate", "dunk", "toast", "crush",
                   "divide", "roll", "lay", "brush", "repeat", "spray",
                   "drizzle", "take", "let", "cool", "seal", "store",
                   "dissolve", "steep", "adjust", "dilute", "caramelize",
                   "harden", "slowly", "reduce">>),
           WordB >>)

EXCLUDE_KEYWORDS ==
    {"contents", "introduction", "foreword", "preface", "acknowledgment",
     "index", "about the author", "copyright", "dedication", "cover",
     "equipment list", "tools needed", "conversion chart", "glossary",
     "chapter", "how to cut", "how to make", "techniques", "basics",
     "fundamentals", "tips", "mechanics", "history"}

(***************************************************************************)
(* core/validator.py                                                       *)
(***************************************************************************)
OptColon == Opt(Lit(":"))
Ws1 == Plus(Space)

\* RecipeValidator.SUB_SECTION_PATTERNS (matched with re.IGNORECASE: applied
\* to the lowered title)
SUB_SECTION_PATTERNS ==
    << Cat(<<Opt(Cat(<<Lit("special"), Ws1>>)), Lit("equipment"),
             Opt(Cat(<<Ws1, Lit("needed")>>)), OptColon, Eol>>),
       Cat(<<Alt(<<Lit("gear"), Cat(<<Lit("tool"), Opt(Lit("s"))>>)>>),
             Opt(Cat(<<Ws1, Lit("needed")>>)), OptColon, Eol>>),
       Cat(<<Lit("what"), Ws1, Lit("you"), Opt(Lit("'ll")), Ws1, Lit("need"),
             OptColon, Eol>>),
       Cat(<<Words(<<"prep", "cook", "active", "passive", "total">>), Ws1,
             Lit("time"), OptColon>>),
       Cat(<<Alt(<<Cat(<<Lit("serve"), Opt(Lit("s"))>>),
                   Cat(<<Lit("serving"), Opt(Lit("s"))>>),
                   Cat(<<Lit("yield"), Opt(Cls({"s"}))>>),
                   Cat(<<Lit("make"), Opt(Lit("s"))>>)>>),
             OptColon, Star(Space), Star(Digit), Eol>>),
       Cat(<<Lit("to"), Ws1, Lit("serve"), OptColon, Eol>>),
       Cat(<<Lit("for"), Ws1, Lit("serving"), OptColon, Eol>>),
       Cat(<<Lit("garnish"), OptColon, Eol>>),
       Cat(<<Lit("presentation"), OptColon, Eol>>),
       Cat(<<Lit("for"), Ws1, Lit("the"), Ws1>>),
       Cat(<<Words(<<"coarse", "sea", "kosher">>), Ws1, Lit("salt"), Eol>>),
       Cat(<<Words(<<"black", "white">>), Ws1, Lit("pepper"), Eol>>),
       Cat(<<Words(<<"olive", "vegetable", "canola">>), Ws1, Lit("oil"), Eol>>),
       Cat(<<Lit("dressing"), Eol>>),
       Cat(<<Lit("sauce"), Eol>>),
       Cat(<<Lit("marinade"), Eol>>),
       Cat(<<Lit("glaze"), Eol>>),
       Cat(<<Lit("rub"), Eol>>),
       Cat(<<Lit("brine"), Eol>>),
       Cat(<<Opt(Cat(<<Lit("the"), Ws1>>)),
             Words(<<"filling", "topping", "coating", "crust">>), Eol>>),
       Cat(<<Words(<<"note", "tip", "variation">>), Opt(Lit("s")), OptColon, Eol>>),
       Cat(<<Words(<<"indoor", "outdoor">>), Ws1, Lit("alternative"), OptColon, Eol>>),
       Cat(<<Alt(<<Cat(<<Lit("chef"), Opt(Lit("'s"))>>),
                   Cat(<<Lit("cook"), Opt(Lit("'s"))>>)>>),
             Ws1, Words(<<"note", "tip">>), Opt(Lit("s")), OptColon, Eol>>) >>

\* RecipeValidator._is_sub_section
_is_sub_section(title) ==
    \E n \in 1..Len(SUB_SECTION_PATTERNS) :
        ReMatch(SUB_SECTION_PATTERNS[n], Lower(title))

\* the EXCLUDE_KEYWORDS loop of is_valid_recipe
has_exclude_keyword(title_lower) ==
    \E keyword \in EXCLUDE_KEYWORDS : Contains(title_lower, keyword)

single_ingredient_words ==
    {"coarse salt", "sea salt", "kosher salt", "black pepper", "white pepper",
     "olive oil", "vegetable oil", "butter", "flour", "sugar", "water", "salt",
     "pepper", "oil"}

\* RecipeValidator._is_likely_ingredient_title
_is_likely_ingredient_title(title) ==
    IF Len(title) > 30 THEN FALSE
    ELSE \/ /\ Len(title) < 20
            /\ \/ ReSearch(Plus(Digit), title)
               \/ \E ingredient \in single_ingredient_words :
                     \/ ingredient = Lower(title)
                     \/ StartsWith(Lower(title), ingredient \o " ")
         \/ /\ Len(title) < 25
            /\ ReSearch(MEASUREMENT_PATTERN, Lower(title))

\* r"\b(?:ingredient|what you need)\b"
IngredientKeywordPattern ==
    Cat(<<WordB, Words(<<"ingredient", "what you need">>), WordB>>)
\* r"\b(?:instruction|direction|method|steps?)\b"
InstructionKeywordPattern ==
    Cat(<<WordB,
          Alt(<<Lit("instruction"), Lit("direction"), Lit("method"),
                Cat(<<Lit("step"), Opt(Lit("s"))>>)>>),
          WordB>>)

\* the scoring stage of is_valid_recipe
content_score(text) ==
    LET text_lower == Lower(text)
        cooking_verbs == FindallCount(COOKING_VERBS_PATTERN, text_lower)
        measurements == FindallCount(MEASUREMENT_PATTERN, text_lower)
    IN  (IF cooking_verbs >= 3 THEN 3 ELSE 0)
      + (IF measurements >= 2 THEN 2 ELSE 0)
      + (IF ReSearch(IngredientKeywordPattern, text_lower) THEN 2 ELSE 0)
      + (IF ReSearch(InstructionKeywordPattern, text_lower) THEN 2 ELSE 0)
      + (IF Len(text) > 200 THEN 1 ELSE 0)

\* is_valid_recipe with the content scored first: a text of 5 points or
\* more is accepted before the title is looked at
is_valid_recipe_content_first(text, title) ==
    IF content_score(text) >= 5 THEN [valid |-> TRUE, scored |-> TRUE]
    ELSE [valid |-> FALSE, scored |-> TRUE]

\* is_valid_recipe accepting only more than 5 points
is_valid_recipe_above_five(text, title) ==
    IF \/ _is_sub_section(Strip(title))
       \/ has_exclude_keyword(Lower(title))
       \/ _is_likely_ingredient_title(Strip(title))
    THEN [valid |-> FALSE, scored |-> FALSE]
    ELSE [valid |-> content_score(text) > 5, scored |-> TRUE]

\* RecipeValidator.is_valid_recipe; `scored` tells whether the call got as
\* far as the scoring stage
is_valid_recipe(text, title) ==
    LET title_stripped == Strip(title)
    IN  IF _is_sub_section(title_stripped)
        THEN [valid |-> FALSE, scored |-> FALSE]
        ELSE IF has_exclude_keyword(Lower(title))
        THEN [valid |-> FALSE, scored |-> FALSE]
        ELSE IF _is_likely_ingredient_title(title_stripped)
        THEN [valid |-> FALSE, scored |-> FALSE]
        ELSE [valid |-> content_score(text) >= 5, scored |-> TRUE]

(***************************************************************************)
(* extractors/ingredients.py and extractors/instructions.py                *)
(*                                                                         *)
(* A zone is what a structural detector found: its detection_method, its   *)
(* confidence (the detector's prior), the text get_text gives for its      *)
(* element, and pattern_confidence and linguistic_score, the values the    *)
(* pattern detector's calculate_confidence and the linguistic analyzer's   *)
(* calculate_*_score return for that text.  Confidences are in hundredths  *)
(* (0.85 is 85) and a weighted combination in ten-thousandths (0.5 is      *)
(* 5000), so that the weights 0.30, 0.50, 0.20 and 0.70, 0.30 are whole    *)
(* numbers.  The result of the legacy strategy chain on the same soup is   *)
(* a record of the same kind: its text (None or a str) and the two scores  *)
(* of that text.  No detector, analyzer or legacy strategy raises.         *)
(***************************************************************************)
\* a dict with d[k] = v
Put(d, k, v) == [x \in DOMAIN d \cup {k} |-> IF x = k THEN v ELSE d[x]]

\* {} of Python
EmptyDict == [x \in {} |-> None]

\* zones.sort(key=lambda z: z.confidence, reverse=True): a stable sort
SortByConfidence(zones) ==
    LET Rank(i) ==
            Cardinality({j \in 1..Len(zones) :
                            zones[j].confidence > zones[i].confidence})
          + Cardinality({j \in 1..(i - 1) :
                            zones[j].confidence = zones[i].confidence})
          + 1
    IN  [n \in 1..Len(zones) |->
            zones[CHOOSE i \in 1..Len(zones) : Rank(i) = n]]

\* IngredientStructuralDetector.find_ingredient_zones, from the zones its
\* strategies found (in strategy order, duplicates removed)
find_ingredient_zones(found) == SortByConfidence(found)

\* InstructionStructuralDetector.find_instruction_zones: the zones in strategy
\* order, duplicates removed, not sorted
find_instruction_zones(found) == found

\* structural 30% + pattern 50% + linguistic 20%
combined_confidence(zone) ==
    zone.confidence * 30 + zone.pattern_confidence * 50
        + zone.linguistic_score * 20

\* the combined score of the fallback: pattern 70% + linguistic 30%
fallback_combined(legacy) ==
    legacy.pattern_confidence * 70 + legacy.linguistic_score * 30

\* the metadata dict without any key
ingredients_metadata_empty == EmptyDict

\* the metadata dict IngredientsExtractor.extract_with_patterns starts from
ingredients_metadata ==
    [strategy |-> None, confidence |-> 0, linguistic_score |-> 0,
     structural_confidence |-> 0, used_structural_detector |-> FALSE,
     zone_count |-> 0, combined_score |-> 0]

\* the zone IngredientsExtractor.extract_with_patterns looks at: zones[0]
ingredients_best_zone(zones) == IF zones = <<>> THEN PyNone ELSE zones[1]

\* IngredientsExtractor.extract_with_patterns: the pair it returns
ingredients_extract_with_patterns(found, legacy) ==
    LET zones == find_ingredient_zones(found)
        best_zone == ingredients_best_zone(zones)
        m1 == IF zones = <<>> THEN ingredients_metadata
              ELSE [ingredients_metadata EXCEPT
                        !.used_structural_detector = TRUE,
                        !.zone_count = Len(zones),
                        !.structural_confidence = best_zone.confidence]
        scored == zones # <<>> /\ Len(best_zone.text) > 50
        m2 == IF ~scored THEN m1
              ELSE Put([m1 EXCEPT
                            !.strategy = "structural_zones",
                            !.confidence = best_zone.pattern_confidence,
                            !.linguistic_score = best_zone.linguistic_score,
                            !.combined_score = combined_confidence(best_zone)],
                       "detection_method", best_zone.detection_method)
    IN  IF scored /\ combined_confidence(best_zone) >= 5000
        THEN PyTuple(PyStr(best_zone.text), m2)
        ELSE IF Truthy(legacy.text)
        THEN PyTuple(legacy.text,
                     [m2 EXCEPT
                        !.strategy = "original_with_patterns",
                        !.confidence = legacy.pattern_confidence,
                        !.linguistic_score = legacy.linguistic_score,
                        !.combined_score = fallback_combined(legacy)])
        ELSE PyTuple(PyNone, m2)

\* the metadata of IngredientsExtractor.extract when the legacy chain finds
\* text after the patterns found none
legacy_fallback_metadata ==
    [strategy |-> "legacy_fallback", confidence |-> 50,
     linguistic_score |-> 0, combined_score |-> 5000,
     fallback_reason |-> "pattern_extraction_failed"]

\* extract in pattern mode from the zones alone, the legacy chain left out
ingredients_extract_zones_only(found, legacy, use_patterns) ==
    IF ~use_patterns THEN legacy.text
    ELSE ingredients_extract_with_patterns(
            found, [text |-> PyNone, pattern_confidence |-> 0,
                    linguistic_score |-> 0])

\* IngredientsExtractor.extract(soup, text, use_patterns)
ingredients_extract(found, legacy, use_patterns) ==
    IF ~use_patterns THEN legacy.text
    ELSE LET pair == ingredients_extract_with_patterns(found, legacy)
         IN  IF pair.text = PyNone
             THEN IF Truthy(legacy.text)
                  THEN PyTuple(legacy.text, legacy_fallback_metadata)
                  ELSE PyTuple(PyNone, pair.meta)
             ELSE pair

\* the metadata dict InstructionsExtractor.extract_with_patterns starts from
instructions_metadata ==
    [strategy |-> None, confidence |-> 0, linguistic_score |-> 0,
     used_structural_detector |-> FALSE, zone_count |-> 0,
     detection_method |-> None]

\* one pass of `for zone in zones`: zones of fewer than 50 characters are
\* skipped, a zone whose combined confidence is strictly greater than the best
\* so far becomes the best and writes its scores into the metadata
evaluate_zone(acc, zone) ==
    IF Len(zone.text) < 50 THEN acc
    ELSE IF combined_confidence(zone) > acc.best_combined_confidence
    THEN [best_zone |-> zone,
          best_combined_confidence |-> combined_confidence(zone),
          metadata |-> [acc.metadata EXCEPT
                            !.confidence = zone.pattern_confidence,
                            !.linguistic_score = zone.linguistic_score,
                            !.strategy = "structural_" \o zone.detection_method,
                            !.detection_method = zone.detection_method]]
    ELSE acc

RECURSIVE evaluate_zones(_, _, _)
evaluate_zones(acc, zones, i) ==
    IF i > Len(zones) THEN acc
    ELSE evaluate_zones(evaluate_zone(acc, zones[i]), zones, i + 1)

\* the state of InstructionsExtractor.extract_with_patterns after its loop
instructions_evaluation(found) ==
    LET zones == find_instruction_zones(found)
    IN  IF zones = <<>>
        THEN [best_zone |-> PyNone, best_combined_confidence |-> 0,
              metadata |-> instructions_metadata]
        ELSE evaluate_zones(
                [best_zone |-> PyNone, best_combined_confidence |-> 0,
                 metadata |-> [instructions_metadata EXCEPT
                                  !.used_structural_detector = TRUE,
                                  !.zone_count = Len(zones)]],
                zones, 1)

\* the zone InstructionsExtractor.extract_with_patterns selected
instructions_best_zone(found) == instructions_evaluation(found).best_zone

\* InstructionsExtractor.extract_with_patterns: the pair it returns; legacy is
\* what InstructionsExtractor.extract gives for the same soup
instructions_extract_with_patterns(found, legacy) ==
    LET ev == instructions_evaluation(found)
    IN  IF ev.best_zone # PyNone /\ ev.best_combined_confidence >= 5000
        THEN PyTuple(PyStr(ev.best_zone.text), ev.metadata)
        ELSE IF Truthy(legacy.text)
        THEN PyTuple(legacy.text,
                     [ev.metadata EXCEPT
                        !.strategy = "original_with_patterns",
                        !.confidence = legacy.pattern_confidence,
                        !.linguistic_score = legacy.linguistic_score])
        ELSE PyTuple(PyNone, ev.metadata)

(***************************************************************************)
(* utils/text.py                                                           *)
(***************************************************************************)
\* where a match of \{[^}]+\} that starts at i ends (0: no match at i)
BraceEnd(t, i) ==
    IF i <= Len(t) /\ Char(t, i) = "{"
    THEN LET close == {j \in (i + 2)..Len(t) :
                          /\ Char(t, j) = "}"
                          /\ \A m \in (i + 1)..(j - 1) : Char(t, m) # "}"}
         IN  IF close = {} THEN 0 ELSE (CHOOSE j \in close : TRUE) + 1
    ELSE 0

\* where the match of \[.*?\]\(.*?\) that starts at i ends (0: no match at i)
LinkEnd(t, i) ==
    IF i <= Len(t) /\ Char(t, i) = "["
    THEN LET NoNewline(a, b) == \A m \in a..b : Char(t, m) # "\n"
             ends == {k \in (i + 3)..Len(t) :
                        /\ Char(t, k) = ")"
                        /\ \E j \in (i + 1)..(k - 2) :
                              /\ Char(t, j) = "]" /\ Char(t, j + 1) = "("
                              /\ NoNewline(i + 1, k - 1)
                              \* lazy: no earlier "](" that a ")" follows, and
                              \* no earlier ")" after this "]("
                              /\ \A j2 \in (i + 1)..(j - 1) :
                                    ~(Char(t, j2) = "]" /\ Char(t, j2 + 1) = "(")
                              /\ \A k2 \in (j + 2)..(k - 1) : Char(t, k2) # ")"}
         IN  IF ends = {} THEN 0 ELSE (CHOOSE k \in ends : TRUE) + 1
    ELSE 0

\* where a match of one of clean_text's two patterns that starts at i ends
MatchEnd(pattern, t, i) ==
    IF pattern = "\\{[^}]+\\}" THEN BraceEnd(t, i) ELSE LinkEnd(t, i)

\* re.sub(pattern, "", t) from position i on: the leftmost matches, one after
\* the other, are removed
RECURSIVE RemoveMatches(_, _, _)
RemoveMatches(pattern, t, i) ==
    LET starts == {a \in i..Len(t) : MatchEnd(pattern, t, a) > 0}
    IN  IF starts = {} THEN SubSeq(t, i, Len(t))
        ELSE LET a == CHOOSE x \in starts : \A y \in starts : x <= y
             IN  SubSeq(t, i, a - 1)
                     \o RemoveMatches(pattern, t, MatchEnd(pattern, t, a))

clean_text(text) ==
    Strip(RemoveMatches("\\[.*?\\]\\(.*?\\)",
                        RemoveMatches("\\{[^}]+\\}", text, 1), 1))

(***************************************************************************)
(* testing/ab_runner.py                                                    *)
(***************************************************************************)
\* len(v): the characters of a str, the two elements of a result pair
PyLen(v) == IF v.kind = "str" THEN Len(v.s) ELSE 2

\* d.get(k) for a dict of str values
Get(d, k) == IF k \in DOMAIN d THEN PyStr(d[k]) ELSE PyNone

\* ABTestRunner._extract_with_metadata, from what extractor.extract returned
_extract_with_metadata(result) ==
    IF result.kind = "tuple" THEN result ELSE PyTuple(result, EmptyDict)

\* ABTestRunner.compare_extractors, from the control result and what the
\* treatment extractor's extract returned
compare_extractors(config, control_result, treatment) ==
    LET pair == _extract_with_metadata(treatment)
        old_success == control_result # PyNone
                        /\ PyLen(control_result) > config.success_threshold
        new_success == pair.text # PyNone
                        /\ PyLen(pair.text) > config.success_threshold
    IN  [old_ingredients |-> control_result,
         new_ingredients |-> pair.text,
         old_length |-> IF Truthy(control_result) THEN PyLen(control_result)
                        ELSE 0,
         new_length |-> IF Truthy(pair.text) THEN PyLen(pair.text) ELSE 0,
         old_success |-> old_success,
         new_success |-> new_success,
         agreement |-> (old_success = new_success),
         strategy |-> IF "strategy" \in DOMAIN pair.meta
                      THEN pair.meta.strategy ELSE None,
         used_structural_detector |->
            IF "used_structural_detector" \in DOMAIN pair.meta
            THEN pair.meta.used_structural_detector ELSE FALSE]

\* ABTestRunner.should_use_treatment
should_use_treatment(config, comparison) ==
    config.use_new_method /\ comparison.new_ingredients # PyNone

(***************************************************************************)
(* core/extractor.py: what EPUBRecipeExtractor does with one section.      *)
(* A section is the text HTMLParser.extract_text gives for its soup, its   *)
(* title, the zones and the legacy result the ingredients extractor finds  *)
(* in the soup, and what InstructionsExtractor.extract and                 *)
(* MetadataExtractor.extract give for it.                                  *)
(***************************************************************************)
\* self.ingredients_extractor.extract(section_soup, text): the default
\* IngredientsExtractor is called with use_patterns left at True; an
\* injected extractor in the protocol's legacy mode returns Optional[str]
extract_ingredients(wiring, section) ==
    ingredients_extract(section.found, section.legacy,
                        wiring = "IngredientsExtractor")

\* the treatment extractor of A/B testing is always an IngredientsExtractor
extract_treatment(section) ==
    ingredients_extract(section.found, section.legacy, TRUE)

\* Recipe(...) as the pipeline builds it; quality_score has the dataclass's
\* default
new_recipe(title, ingredients, instructions, metadata) ==
    [title |-> title,
     ingredients |-> ingredients,
     instructions |-> instructions,
     serves |-> Get(metadata, "serves"),
     prep_time |-> Get(metadata, "prep_time"),
     cook_time |-> Get(metadata, "cook_time"),
     cooking_method |-> Get(metadata, "cooking_method"),
     protein_type |-> Get(metadata, "protein_type"),
     quality_score |-> 0,
     metadata |-> EmptyDict]

\* the validator's verdict ignored
rejected_never(valid) == FALSE

\* `if not self.validator.is_valid_recipe(section_soup, text, title)`
rejected(valid) == ~valid

\* the quality threshold ignored
below_threshold_never(quality_score, min_quality_score) == FALSE

\* `if recipe.quality_score < self.config.min_quality_score`
below_threshold(quality_score, min_quality_score) ==
    quality_score < min_quality_score

(***************************************************************************)
(* Bounds and the texts the specifications draw their inputs from          *)
(***************************************************************************)
\* the largest number of lines of a generated ingredient or instruction text
MaxLines == 10

IngredientLine == "1. 2 cups all-purpose flour, sifted"
ShortIngredients == "1. 1 cup"
InstructionLine == "1. Heat oil, add onion, stir, cook, mix, boil, bake and season well."
ShortInstructions == "1. Mix.\n2. Stir."

\* a list as the list strategy of the ingredients extractor formats it:
\* "\n".join(f"- {item}" for item in items)
DashedIngredients == "- 2 cups flour\n- 1 tsp salt\n- 3 large eggs"

IngredientTexts ==
    {"", ShortIngredients, DashedIngredients}
        \cup {Repeat(IngredientLine, n) : n \in 1..MaxLines}
InstructionTexts ==
    {"", ShortInstructions} \cup {Repeat(InstructionLine, n) : n \in 1..MaxLines}

\* the largest number of filler lines of a generated section text
MaxFiller == 3

\* section titles handed to the validator
ValidatorTitles ==
    {"Grandma's Cake", "Equipment Needed", " Equipment Needed ",
     "FOR THE VINAIGRETTE", "For the Filling", "Kosher Salt", "Introduction",
     "Tips and Tricks", "Discovery Soup", "Butter", "Sugar Cookies", "2 Eggs",
     "Lemon Tart with 1 cup Cream", "Roast Chicken with Lemon and Thyme Gravy"}

\* section text is put together from fragments that each earn one of the
\* validator's content signals, and filler lines that earn none
VerbsFragment == "Heat the pan, add butter and stir well."
MeasurementsFragment == "Use 2 cups flour and 1 tsp salt."
IngredientKeywordFragment == "Every ingredient counts."
InstructionKeywordFragment == "Method"
SignalFragments ==
    <<VerbsFragment, MeasurementsFragment, IngredientKeywordFragment,
      InstructionKeywordFragment>>
FillerLine == "Grandmother wrote this down on a card she kept in the kitchen drawer."

SectionText(chosen, filler) ==
    JoinLines(SelectSeq(SignalFragments, LAMBDA f : f \in chosen)
                \o [k \in 1..filler |-> FillerLine])

ValidatorTexts ==
    {SectionText(chosen, filler) :
        chosen \in SUBSET {SignalFragments[n] : n \in 1..Len(SignalFragments)},
        filler \in 0..MaxFiller}

OptionalStr(texts) == {PyNone} \cup {PyStr(t) : t \in texts}

\* the Recipes handed to the scorer: Optional[str] fields, as core/models.py
\* declares them
ScorerRecipes ==
    [ingredients : OptionalStr(IngredientTexts),
     instructions : OptionalStr(InstructionTexts),
     serves : OptionalStr({"4-6"}),
     prep_time : OptionalStr({"15"}),
     cook_time : OptionalStr({"90"}),
     cooking_method : OptionalStr({"bake"}),
     protein_type : OptionalStr({"chicken"})]

\* the zones a structural detector finds in one soup: at most MaxZones
MaxZones == 2
\* pattern confidences are drawn from 0, 1/ScoreSteps, ..., 1 (in hundredths)
ScoreSteps == 2
ScoreLevels == {(100 * n) \div ScoreSteps : n \in 0..ScoreSteps}
LinguisticLevels == {0, 100}

\* zone texts of 49, 50 and 51 characters
ZoneBaseText == "Heat oil until hot then add the onion when soft ok."
ZoneTexts == {SubSeq(ZoneBaseText, 1, n) : n \in {49, 50, 51}}

\* detection methods with the confidence their strategy assigns, and the
\* position of the strategy in the detector's order of strategies
IngredientZoneKinds ==
    {[detection_method |-> "css_class", confidence |-> 85, strategy |-> 2],
     [detection_method |-> "css_class", confidence |-> 90, strategy |-> 2]}
InstructionZoneKinds ==
    {[detection_method |-> "css_class", confidence |-> 90, strategy |-> 1],
     [detection_method |-> "header", confidence |-> 85, strategy |-> 2]}

ZoneKinds(family) ==
    IF family = "ingredients" THEN IngredientZoneKinds
    ELSE InstructionZoneKinds

ZonesOfKind(kind) ==
    [detection_method : {kind.detection_method},
     confidence : {kind.confidence},
     text : ZoneTexts,
     pattern_confidence : ScoreLevels,
     linguistic_score : LinguisticLevels]

\* the lists of zones the strategies of a detector can find in one soup: each
\* strategy appends its zones after those of the strategies before it
FoundZones(family) ==
    UNION {
        {zs \in [1..n -> UNION {ZonesOfKind(k) : k \in ZoneKinds(family)}] :
            \A i \in 1..n : \A j \in (i + 1)..n :
                \E ki, kj \in ZoneKinds(family) :
                    /\ zs[i] \in ZonesOfKind(ki)
                    /\ zs[j] \in ZonesOfKind(kj)
                    /\ ki.strategy <= kj.strategy}
        : n \in 0..MaxZones}

\* what the legacy strategy chain can give for a soup
LegacyText == "2 cups flour\n1 cup sugar\n3 large eggs\n1 tsp salt\n1 cup milk"
NoLegacy == [text |-> PyNone, pattern_confidence |-> 0, linguistic_score |-> 0]
LegacyResults ==
    {NoLegacy} \cup
    [text : {PyStr(LegacyText)}, pattern_confidence : ScoreLevels,
     linguistic_score : {100}]

\* the sections of one EPUB document: at most MaxSections
MaxSections == 2

CleanTitle == "Grandma's Cake"
ShortSectionText == JoinLines(<<MeasurementsFragment, VerbsFragment>>)
RecipeSectionText == JoinLines(SignalFragments)
NarrativeSectionText == Repeat(FillerLine, 2)

\* title and text of a section
TitledTexts ==
    {<<CleanTitle \o " {#c1}", ShortSectionText>>,
     <<CleanTitle \o " {#c1}", RecipeSectionText>>,
     <<CleanTitle \o " {#c1}", NarrativeSectionText>>,
     <<"Introduction", RecipeSectionText>>}

ListZone ==
    [detection_method |-> "id_attribute", confidence |-> 85,
     text |-> LegacyText, pattern_confidence |-> 100,
     linguistic_score |-> 100]
LegacyList ==
    [text |-> PyStr(LegacyText), pattern_confidence |-> 100,
     linguistic_score |-> 100]

\* what the extractors find in a section's soup: nothing, a list of
\* ingredients only, or ingredients, instructions and metadata
Extractions ==
    {[found |-> <<>>, legacy |-> NoLegacy, instructions |-> PyNone,
      metadata |-> EmptyDict],
     [found |-> <<ListZone>>, legacy |-> NoLegacy, instructions |-> PyNone,
      metadata |-> EmptyDict],
     [found |-> <<ListZone>>, legacy |-> LegacyList,
      instructions |-> PyStr(Repeat(InstructionLine, 3)),
      metadata |-> [serves |-> "4-6", cooking_method |-> "bake"]]}

PipelineSections ==
    {[title |-> tt[1], text |-> tt[2], found |-> e.found, legacy |-> e.legacy,
      instructions |-> e.instructions, metadata |-> e.metadata] :
        tt \in TitledTexts, e \in Extractions}

\* is_valid_recipe is a pure function of text and title: its verdicts on the
\* texts and titles of the pipeline's sections (the titles as they are and as
\* clean_text leaves them), each evaluated once
SectionVerdicts ==
    UNION {{[text |-> tt[2], title |-> ti,
             valid |-> is_valid_recipe(tt[2], ti).valid] :
                ti \in {tt[1], clean_text(tt[1])}} : tt \in TitledTexts}

\* how the EPUBRecipeExtractor is constructed: its ingredients extractor (the
\* default IngredientsExtractor or an injected one in legacy mode) and its
\* config
PipelineSetups ==
    {[wiring |-> w, min_quality_score |-> m, ab_enabled |-> ab[1],
      use_new_method |-> ab[2], success_threshold |-> 25] :
        w \in {"IngredientsExtractor", "legacy_mode"},
        m \in {20, 60},
        ab \in {<<FALSE, FALSE>>, <<TRUE, FALSE>>, <<TRUE, TRUE>>}}

(***************************************************************************)
(* State                                                                   *)
(***************************************************************************)
VARIABLES
    sRecipe,    \* the Recipe passed to QualityScorer.score_recipe
    sResult,    \* what that call returned, once it has
    vTitle,     \* the title passed to RecipeValidator.is_valid_recipe
    vText,      \* the text passed to it
    vResult,    \* what that call returned, once it has
    xFamily,    \* the component extractor called: ingredients or instructions
    xFound,     \* the zones its structural detector's strategies find
    xLegacy,    \* what its legacy strategy chain gives
    xCall,      \* the method called, once it has been
    xBest,      \* the zone extract_with_patterns selected (best_zone)
    xResult,    \* what the call returned, once it has
    pMode,      \* the entry point called: extract_from_epub or
                \* extract_from_section
    pSetup,     \* how the EPUBRecipeExtractor was constructed
    pSections,  \* the sections of the document
    pIndex,     \* the section being processed
    pc,         \* where in the section's processing the pipeline is
    pLocals,    \* the local variables of the loop body
    pLog,       \* the calls made to the components, in order
    pRecipes,   \* the list `recipes` of extract_from_epub
    pResult,    \* what the entry point returned, once it has
    fCall,      \* the function of a component applied on its own
    fArgs,      \* the arguments it is applied to
    fResult     \* what it returned, once it has

vars ==
    <<sRecipe, sResult, vTitle, vText, vResult,
      xFamily, xFound, xLegacy, xCall, xBest, xResult,
      pMode, pSetup, pSections, pIndex, pc, pLocals, pLog, pRecipes, pResult,
      fCall, fArgs, fResult>>

Pending == [status |-> "pending"]
Raised == [status |-> "raised"]
Returned(v) == [status |-> "returned", value |-> v]

NoRecipe ==
    [ingredients |-> PyNone, instructions |-> PyNone, serves |-> PyNone,
     prep_time |-> PyNone, cook_time |-> PyNone, cooking_method |-> PyNone,
     protein_type |-> PyNone]

ScorerIdle == sRecipe = NoRecipe /\ sResult = Pending
ValidatorIdle == vTitle = "" /\ vText = "" /\ vResult = Pending

ExtractorIdle ==
    /\ xFamily = None /\ xFound = <<>> /\ xLegacy = NoLegacy
    /\ xCall = None /\ xBest = PyNone /\ xResult = Pending

NoLocals ==
    [text |-> None, title |-> None, ingredients |-> PyNone,
     ab_metadata |-> PyNone, instructions |-> PyNone, metadata |-> EmptyDict,
     recipe |-> PyNone]

PipelineIdle ==
    /\ pMode = None /\ pSetup = None /\ pSections = <<>> /\ pIndex = 0
    /\ pc = None /\ pLocals = NoLocals /\ pLog = <<>> /\ pRecipes = <<>>
    /\ pResult = Pending

FunctionIdle == fCall = None /\ fArgs = <<>> /\ fResult = Pending

pipelineVars ==
    <<pMode, pSetup, pSections, pIndex, pc, pLocals, pLog, pRecipes, pResult>>
functionVars == <<fCall, fArgs, fResult>>
scorerVars == <<sRecipe, sResult>>
validatorVars == <<vTitle, vText, vResult>>
extractorVars == <<xFamily, xFound, xLegacy, xCall, xBest, xResult>>

(***************************************************************************)
(* QualityScorer.score_recipe applied to every Recipe of ScorerRecipes     *)
(***************************************************************************)
ScoreInit ==
    /\ sRecipe \in ScorerRecipes
    /\ sResult = Pending
    /\ ValidatorIdle
    /\ ExtractorIdle
    /\ PipelineIdle
    /\ FunctionIdle

ScoreRecipe ==
    /\ sResult = Pending
    /\ sResult' = IF score_recipe_raises(sRecipe) THEN Raised
                  ELSE Returned(score_recipe(sRecipe))
    /\ UNCHANGED <<sRecipe, validatorVars, extractorVars, pipelineVars, functionVars>>

ScoreNext == ScoreRecipe
SpecScore == ScoreInit /\ [][ScoreNext]_vars

(***************************************************************************)
(* RecipeValidator.is_valid_recipe applied to every title and text         *)
(***************************************************************************)
ValidateInit ==
    /\ vTitle \in ValidatorTitles
    /\ vText \in ValidatorTexts
    /\ vResult = Pending
    /\ ScorerIdle
    /\ ExtractorIdle
    /\ PipelineIdle
    /\ FunctionIdle

ValidateSection ==
    /\ vResult = Pending
    /\ vResult' = Returned(is_valid_recipe(vText, vTitle))
    /\ UNCHANGED <<vTitle, vText, scorerVars, extractorVars, pipelineVars, functionVars>>

ValidateNext == ValidateSection
SpecValidate == ValidateInit /\ [][ValidateNext]_vars

(***************************************************************************)
(* The component extractors applied to every list of zones and every       *)
(* result of the legacy chain                                              *)
(***************************************************************************)
ExtractInit ==
    /\ xFamily \in {"ingredients", "instructions"}
    /\ xFound \in FoundZones(xFamily)
    /\ xLegacy \in LegacyResults
    /\ xCall = None
    /\ xBest = PyNone
    /\ xResult = Pending
    /\ ScorerIdle
    /\ ValidatorIdle
    /\ PipelineIdle
    /\ FunctionIdle

\* IngredientsExtractor.extract_with_patterns(soup, text)
IngredientsExtractWithPatterns ==
    /\ xFamily = "ingredients"
    /\ xCall = None
    /\ xCall' = "extract_with_patterns"
    /\ xBest' = ingredients_best_zone(find_ingredient_zones(xFound))
    /\ xResult' = Returned(ingredients_extract_with_patterns(xFound, xLegacy))
    /\ UNCHANGED <<xFamily, xFound, xLegacy, scorerVars, validatorVars,
                   pipelineVars, functionVars>>

\* IngredientsExtractor.extract(soup, text, use_patterns)
IngredientsExtract ==
    /\ xFamily = "ingredients"
    /\ xCall = None
    /\ \E use_patterns \in BOOLEAN :
        /\ xCall' = IF use_patterns THEN "extract" ELSE "extract_legacy_mode"
        /\ xBest' = IF use_patterns
                    THEN ingredients_best_zone(find_ingredient_zones(xFound))
                    ELSE PyNone
        /\ xResult' = Returned(ingredients_extract(xFound, xLegacy, use_patterns))
    /\ UNCHANGED <<xFamily, xFound, xLegacy, scorerVars, validatorVars,
                   pipelineVars, functionVars>>

\* InstructionsExtractor.extract_with_patterns(soup, text)
InstructionsExtractWithPatterns ==
    /\ xFamily = "instructions"
    /\ xCall = None
    /\ xCall' = "extract_with_patterns"
    /\ xBest' = instructions_best_zone(xFound)
    /\ xResult' = Returned(instructions_extract_with_patterns(xFound, xLegacy))
    /\ UNCHANGED <<xFamily, xFound, xLegacy, scorerVars, validatorVars,
                   pipelineVars, functionVars>>

ExtractNext ==
    \/ IngredientsExtractWithPatterns
    \/ IngredientsExtract
    \/ InstructionsExtractWithPatterns
SpecExtract == ExtractInit /\ [][ExtractNext]_vars

(***************************************************************************)
(* EPUBRecipeExtractor.extract_from_epub over the sections of a document   *)
(* and EPUBRecipeExtractor.extract_from_section on one section, a call to  *)
(* a component at a time                                                   *)
(***************************************************************************)
Init ==
    /\ pMode \in {"extract_from_epub", "extract_from_section"}
    /\ pSetup \in PipelineSetups
    /\ pSections \in
            UNION {[1..n -> PipelineSections] :
                    n \in 1..(IF pMode = "extract_from_epub"
                              THEN MaxSections ELSE 1)}
    /\ pIndex = 1
    /\ pc = "section"
    /\ pLocals = NoLocals
    /\ pLog = <<>>
    /\ pRecipes = <<>>
    /\ pResult = Pending
    /\ ScorerIdle
    /\ ValidatorIdle
    /\ ExtractorIdle
    /\ FunctionIdle

otherVars == <<scorerVars, validatorVars, extractorVars, functionVars>>
section == pSections[pIndex]
InEpub == pMode = "extract_from_epub"
Called(component) == Append(pLog, [section |-> pIndex, call |-> component])

\* the end of the work on a section: extract_from_epub goes on to the next
\* section, or returns `recipes` after the last one; extract_from_section
\* returns `value`
Leave(value, recipes) ==
    /\ pRecipes' = recipes
    /\ IF InEpub /\ pIndex < Len(pSections)
       THEN pIndex' = pIndex + 1 /\ pc' = "section" /\ pResult' = pResult
       ELSE /\ pIndex' = pIndex
            /\ pc' = "done"
            /\ pResult' = Returned(IF InEpub THEN recipes ELSE value)

\* `if len(text) < 100: continue` of extract_from_epub
SkipShortSection ==
    /\ pc = "section"
    /\ InEpub
    /\ Len(section.text) < 100
    /\ pLocals' = [NoLocals EXCEPT !.text = section.text]
    /\ Leave(PyNone, pRecipes)
    /\ UNCHANGED <<pMode, pSetup, pSections, pLog,
                   otherVars>>

\* self.validator.is_valid_recipe(section_soup, text, title), on the title
\* clean_text gives in extract_from_epub and on the caller's in
\* extract_from_section
ConsultValidator ==
    /\ pc = "section"
    /\ ~(InEpub /\ Len(section.text) < 100)
    /\ LET title == IF InEpub THEN clean_text(section.title)
                    ELSE section.title
           valid == (CHOOSE v \in SectionVerdicts :
                        v.text = section.text /\ v.title = title).valid
       IN  /\ pLocals' = [NoLocals EXCEPT !.text = section.text,
                                          !.title = title]
           /\ pLog' = Called("validator")
           /\ IF rejected(valid)
              THEN Leave(PyNone, pRecipes)
              ELSE /\ pc' = "ingredients"
                   /\ UNCHANGED <<pIndex, pRecipes, pResult>>
    /\ UNCHANGED <<pMode, pSetup, pSections,
                   otherVars>>

\* self.ingredients_extractor.extract(section_soup, text) and, in
\* extract_from_epub, the A/B comparison and `if not ingredients: continue`
ExtractIngredients ==
    /\ pc = "ingredients"
    /\ LET control == extract_ingredients(pSetup.wiring, section)
           ab_runs == InEpub /\ pSetup.ab_enabled
           ab_metadata ==
                IF ab_runs
                THEN compare_extractors(pSetup, control,
                                        extract_treatment(section))
                ELSE PyNone
           ingredients ==
                IF ab_runs /\ should_use_treatment(pSetup, ab_metadata)
                THEN ab_metadata.new_ingredients
                ELSE control
           \* compare_extractors calls the control extractor again when it
           \* is handed None, and then the treatment extractor
           ab_calls ==
                IF ~ab_runs THEN <<>>
                ELSE (IF control = PyNone
                      THEN <<[section |-> pIndex,
                              call |-> "ingredients_extractor"]>>
                      ELSE <<>>)
                     \o <<[section |-> pIndex, call |-> "treatment_extractor"]>>
       IN  /\ pLocals' = [pLocals EXCEPT !.ingredients = ingredients,
                                         !.ab_metadata = ab_metadata]
           /\ pLog' = Called("ingredients_extractor") \o ab_calls
           /\ IF InEpub /\ ~Truthy(ingredients)
              THEN Leave(PyNone, pRecipes)
              ELSE /\ pc' = "instructions"
                   /\ UNCHANGED <<pIndex, pRecipes, pResult>>
    /\ UNCHANGED <<pMode, pSetup, pSections,
                   otherVars>>

\* self.instructions_extractor.extract(section_soup, text)
ExtractInstructions ==
    /\ pc = "instructions"
    /\ pLocals' = [pLocals EXCEPT !.instructions = section.instructions]
    /\ pLog' = Called("instructions_extractor")
    /\ pc' = "metadata"
    /\ UNCHANGED <<pMode, pSetup, pSections, pIndex, pRecipes, pResult,
                   otherVars>>

\* self.metadata_extractor.extract(section_soup, text, title), and the Recipe
\* built from the three results
ExtractMetadata ==
    /\ pc = "metadata"
    /\ LET recipe == new_recipe(pLocals.title, pLocals.ingredients,
                                pLocals.instructions, section.metadata)
       IN  pLocals' = [pLocals EXCEPT
                        !.metadata = section.metadata,
                        !.recipe =
                            IF InEpub /\ pLocals.ab_metadata # PyNone
                            THEN [recipe EXCEPT !.metadata =
                                    [ab_test |-> pLocals.ab_metadata]]
                            ELSE recipe]
    /\ pLog' = Called("metadata_extractor")
    /\ pc' = "score"
    /\ UNCHANGED <<pMode, pSetup, pSections, pIndex, pRecipes, pResult,
                   otherVars>>

\* recipe.quality_score = self.scorer.score_recipe(recipe) and the filter by
\* config.min_quality_score; an exception of the scorer leaves the entry point
ScoreAndFilter ==
    /\ pc = "score"
    /\ pLog' = Called("scorer")
    /\ IF score_recipe_raises(pLocals.recipe)
       THEN /\ pc' = "raised"
            /\ pResult' = Raised
            /\ UNCHANGED <<pLocals, pIndex, pRecipes>>
       ELSE LET recipe == [pLocals.recipe EXCEPT
                            !.quality_score = score_recipe(pLocals.recipe)]
            IN  /\ pLocals' = [pLocals EXCEPT !.recipe = recipe]
                /\ IF below_threshold(recipe.quality_score,
                                      pSetup.min_quality_score)
                   THEN Leave(PyNone, pRecipes)
                   ELSE Leave(recipe, Append(pRecipes, recipe))
    /\ UNCHANGED <<pMode, pSetup, pSections,
                   otherVars>>

Next ==
    \/ SkipShortSection
    \/ ConsultValidator
    \/ ExtractIngredients
    \/ ExtractInstructions
    \/ ExtractMetadata
    \/ ScoreAndFilter

Spec == Init /\ [][Next]_vars

(***************************************************************************)
(* Claims about the quality scorer                                         *)
(***************************************************************************)
\* what the claims call a missing or too short component
AbsentOrShorterThan(v, n) == v.kind = "none" \/ Len(v.s) < n

\* C1: a Recipe whose ingredients are None or shorter than 10 characters, or
\* whose instructions are None or shorter than 20 characters, scores at most
\* 20, whatever the other fields hold.
C1_PenaltyCapsScoreAt20 ==
    (/\ sResult.status = "returned"
     /\ \/ AbsentOrShorterThan(sRecipe.ingredients, 10)
        \/ AbsentOrShorterThan(sRecipe.instructions, 20))
    => sResult.value <= 20

\* C7: score_recipe returns an integer in [0,100] for every Recipe; the
\* penalty, taken off the summed sub-scores, never brings it below 0.
C7_ScoreWithinBounds ==
    sResult.status = "returned" => sResult.value \in 0..100

\* C7's case: the sub-scores sum to less than the penalty, and the score is
\* floored at 0
C7_Witness ==
    /\ sResult.status = "returned"
    /\ sResult.value = 0
    /\ metadata_score(sRecipe) > 0
    /\ completeness_penalty(sRecipe) = 80

(***************************************************************************)
(* Claims about the validator                                              *)
(***************************************************************************)
TitleMatchesSubSection(title) == _is_sub_section(Strip(title))
TitleHasExcludeKeyword(title) == has_exclude_keyword(Lower(title))

\* the content points as the specification lists them
ContentPoints(text) ==
    (IF FindallCount(COOKING_VERBS_PATTERN, Lower(text)) >= 3 THEN 3 ELSE 0)
  + (IF FindallCount(MEASUREMENT_PATTERN, Lower(text)) >= 2 THEN 2 ELSE 0)
  + (IF ReSearch(IngredientKeywordPattern, Lower(text)) THEN 2 ELSE 0)
  + (IF ReSearch(InstructionKeywordPattern, Lower(text)) THEN 2 ELSE 0)
  + (IF Len(text) > 200 THEN 1 ELSE 0)

\* C2: a title that matches a sub-section pattern or contains an exclude
\* keyword makes is_valid_recipe return False before any content scoring,
\* whatever the text is.
C2_TitleVeto ==
    (/\ vResult.status = "returned"
     /\ TitleMatchesSubSection(vTitle) \/ TitleHasExcludeKeyword(vTitle))
    => (~vResult.value.valid /\ ~vResult.value.scored)

\* C2's case: a vetoed title over a text that earns all 10 content points
C2_Witness ==
    /\ vResult.status = "returned"
    /\ TitleMatchesSubSection(vTitle) \/ TitleHasExcludeKeyword(vTitle)
    /\ ContentPoints(vText) = 10
    /\ ~vResult.value.valid

\* C6 as stated: for a title that matches no sub-section pattern and has no
\* exclude keyword, is_valid_recipe is True exactly when the content points
\* total at least 5.
C6_AcceptIffFivePoints ==
    (/\ vResult.status = "returned"
     /\ ~TitleMatchesSubSection(vTitle)
     /\ ~TitleHasExcludeKeyword(vTitle))
    => (vResult.value.valid <=> ContentPoints(vText) >= 5)

\* C6 amended: the same, for titles that in addition do not look like a single
\* ingredient (_is_likely_ingredient_title).
C6_AcceptIffFivePointsUnlessIngredientTitle ==
    (/\ vResult.status = "returned"
     /\ ~TitleMatchesSubSection(vTitle)
     /\ ~TitleHasExcludeKeyword(vTitle)
     /\ ~_is_likely_ingredient_title(Strip(vTitle)))
    => (vResult.value.valid <=> ContentPoints(vText) >= 5)

\* C6's case: a title that passes every title check over a text of exactly
\* 5 points, accepted
C6_Witness ==
    /\ vResult.status = "returned"
    /\ ~TitleMatchesSubSection(vTitle)
    /\ ~TitleHasExcludeKeyword(vTitle)
    /\ ~_is_likely_ingredient_title(Strip(vTitle))
    /\ ContentPoints(vText) = 5
    /\ vResult.value.valid

(***************************************************************************)
(* Claims about the component extractors                                   *)
(***************************************************************************)
PatternCallReturned ==
    /\ xCall \in {"extract_with_patterns", "extract"}
    /\ xResult.status = "returned"

\* the detected zones whose text is long enough for either extractor to
\* score it
ScorableZones == {i \in 1..Len(xFound) : Len(xFound[i].text) > 50}

\* C8: when extract_with_patterns of either extractor has run, the zone it
\* selected has the highest combined confidence (0.30 structural + 0.50
\* pattern + 0.20 linguistic) of all detected zones: no detected zone has a
\* higher one.
C8_SelectsHighestCombinedZone ==
    (xCall = "extract_with_patterns" /\ xResult.status = "returned") =>
        \A i \in ScorableZones :
            /\ xBest # PyNone
            /\ combined_confidence(xFound[i]) <= combined_confidence(xBest)

\* the result is the text of a structural zone, not of the legacy chain
ZoneReturned ==
    /\ PatternCallReturned
    /\ xResult.value.text # PyNone
    /\ xResult.value.meta.strategy
            \notin {"original_with_patterns", "legacy_fallback"}

BestZoneQualifies ==
    /\ xBest # PyNone
    /\ combined_confidence(xBest) >= 5000
    /\ Len(xBest.text) > 50

\* C9: a zone's text is the result only if the zone's combined confidence is
\* at least 0.5 and its text is longer than 50 characters; when the best zone
\* fails either condition, or there is no zone, the result is what the legacy
\* chain gives.
C9_ZoneReturnedOnlyAboveThresholds ==
    /\ ZoneReturned =>
            BestZoneQualifies /\ xResult.value.text = PyStr(xBest.text)
    /\ (PatternCallReturned /\ ~BestZoneQualifies) =>
            xResult.value.text = xLegacy.text

\* no detected zone clears the thresholds and the legacy chain finds nothing
NothingYieldsText ==
    /\ xLegacy.text = PyNone
    /\ \A i \in 1..Len(xFound) :
            ~(Len(xFound[i].text) >= 50
                /\ combined_confidence(xFound[i]) >= 5000)

C3_NoFatalErrorPath ==
    pSetup.wiring = "IngredientsExtractor" =>
        /\ pResult # Raised
        /\ (pMode = "extract_from_section" /\ pResult.status = "returned") =>
                \/ pResult.value = PyNone
                \/ pResult.value = pLocals.recipe

\* the recipes the entry point returns, or has in its list to return
RecipesOut ==
    {pRecipes[n] : n \in 1..Len(pRecipes)}
        \cup (IF ~InEpub /\ pResult.status = "returned"
                    /\ pResult.value # PyNone
              THEN {pResult.value} ELSE {})

CallsOf(i) == SelectSeq(pLog, LAMBDA e : e.section = i)
ScorerCalls == {k \in 1..Len(pLog) : pLog[k].call = "scorer"}

\* C4: every Recipe returned carries the quality_score the scorer computes
\* from its final ingredients, instructions and metadata fields, and that
\* score is at least config.min_quality_score; until the scorer is called the
\* Recipe has the default score 0, and the scorer is called after the three
\* extractors.
C4_ScoreDerivedAndAboveThreshold ==
    /\ \A r \in RecipesOut :
            /\ ~score_recipe_raises(r)
            /\ r.quality_score = score_recipe(r)
            /\ r.quality_score >= pSetup.min_quality_score
    /\ pc = "score" => pLocals.recipe.quality_score = 0
    /\ pc \in {"ingredients", "instructions", "metadata"} =>
            pLocals.recipe = PyNone
    /\ \A k \in ScorerCalls :
            /\ k >= 4
            /\ pLog[k - 1] =
                    [section |-> pLog[k].section, call |-> "metadata_extractor"]
            /\ pLog[k - 2] =
                    [section |-> pLog[k].section,
                     call |-> "instructions_extractor"]
    /\ Len(pRecipes) <= Cardinality(ScorerCalls)

\* extract_from_epub has returned a recipe and has dropped another one that
\* the scorer put below the threshold
C4_Witness ==
    /\ InEpub
    /\ pResult.status = "returned"
    /\ Len(pResult.value) >= 1
    /\ Len(pResult.value) < Cardinality(ScorerCalls)
    /\ pResult.value[1].quality_score >= pSetup.min_quality_score

\* the title the pipeline hands to the validator for section i
TitleGiven(i) ==
    IF InEpub THEN clean_text(pSections[i].title) ELSE pSections[i].title

\* the validator rejects section i
ValidatorRejects(i) ==
    \E v \in SectionVerdicts :
        /\ v.text = pSections[i].text
        /\ v.title = TitleGiven(i)
        /\ ~v.valid

\* the sections the validator accepted and the scorer was called for
ScoredSections ==
    {i \in 1..Len(pSections) :
        /\ ~ValidatorRejects(i)
        /\ \E k \in ScorerCalls : pLog[k].section = i}

\* C5: for each section the first call is to the validator, before any
\* extractor or the scorer; for a section the validator rejects there is no
\* other call and no Recipe: none is built while the section is worked on,
\* none is returned for it, and the list of recipes has no more entries than
\* there are accepted sections that reached the scorer.
C5_ValidatorGatesEachSection ==
    /\ \A i \in 1..Len(pSections) :
        /\ CallsOf(i) # <<>> => CallsOf(i)[1].call = "validator"
        /\ \A k \in 2..Len(CallsOf(i)) : CallsOf(i)[k].call # "validator"
        /\ ValidatorRejects(i) =>
                /\ Len(CallsOf(i)) <= 1
                /\ (pIndex = i /\ pc # "section") => pLocals.recipe = PyNone
                /\ (~InEpub /\ pResult.status = "returned") =>
                        pResult.value = PyNone
    /\ Len(pRecipes) <= Cardinality(ScoredSections)

\* a document whose first section the validator rejected and whose second
\* section went through the extractors to the scorer
C5_Witness ==
    /\ Len(pSections) >= 2
    /\ ValidatorRejects(1)
    /\ Len(CallsOf(1)) = 1
    /\ \E k \in 1..Len(pLog) : pLog[k] = [section |-> 2, call |-> "scorer"]


(***************************************************************************)
(* utils/html.py on a section whose elements are siblings: an element is   *)
(* [name, class, text, items], text being its get_text(strip=True) and     *)
(* items the texts of the <li> children of a list                          *)
(***************************************************************************)
Element(name, class, text, items) ==
    [name |-> name, class |-> class, text |-> text, items |-> items]

HeaderTags == {"h1", "h2", "h3", "h4", "h5", "h6"}
ListTags == {"ol", "ul"}

\* sep.join(parts)
RECURSIVE Join(_, _)
Join(parts, sep) ==
    IF Len(parts) = 0 THEN ""
    ELSE IF Len(parts) = 1 THEN parts[1]
    ELSE parts[1] \o sep \o Join(Tail(parts), sep)

\* ' '.join(classes).lower()
class_str(elem) == Lower(Join(elem.class, " "))

\* soup.find_all(names): the positions of the elements, in document order
find_all(soup, names) ==
    SortedSeq({i \in 1..Len(soup) : soup[i].name \in names})

\* HTMLParser.extract_from_list(element)
extract_from_list(element) ==
    LET texts == [k \in 1..Len(element.items) |-> Strip(element.items[k])]
    IN  SelectSeq(texts, LAMBDA t : t # "")

\* "\n".join(f"- {item}" for item in items)
DashList(items) == Join([k \in 1..Len(items) |-> "- " \o items[k]], "\n")

\* the content_parts HTMLParser.find_section_by_header collects from the
\* siblings from position j on, up to the next header
RECURSIVE content_parts(_, _)
content_parts(soup, j) ==
    IF j > Len(soup) \/ soup[j].name \in HeaderTags THEN <<>>
    ELSE (IF soup[j].name \in ListTags THEN extract_from_list(soup[j])
          ELSE IF soup[j].name = "p" /\ soup[j].text # "" THEN <<soup[j].text>>
          ELSE <<>>) \o content_parts(soup, j + 1)

\* what HTMLParser.find_section_by_header returns at the header at position
\* i, PyNone when it goes on to the next header
header_section(soup, i) ==
    IF i < Len(soup) /\ soup[i + 1].name \in ListTags
    THEN PyStr(DashList(extract_from_list(soup[i + 1])))
    ELSE LET parts == content_parts(soup, i + 1)
         IN  IF parts # <<>> THEN PyStr(Join(parts, "\n\n")) ELSE PyNone

\* HTMLParser.find_section_by_header(soup, keywords)
find_section_by_header(soup, keywords) ==
    LET hits == {i \in 1..Len(soup) :
                    /\ soup[i].name \in HeaderTags \cup {"p", "div"}
                    /\ \E keyword \in keywords :
                          Contains(Lower(soup[i].text), keyword)
                    /\ header_section(soup, i).kind # "none"}
    IN  IF hits = {} THEN PyNone
        ELSE header_section(soup, CHOOSE i \in hits : \A j \in hits : i <= j)

(***************************************************************************)
(* extractors/ingredients.py: the legacy strategy chain                    *)
(***************************************************************************)
INGREDIENT_KEYWORDS == {"ingredient", "what you need", "you'll need"}

\* len(v) > n for an Optional[str] that is truthy
LongerThan(v, n) == Truthy(v) /\ Len(v.s) > n

\* strategy 2 of _extract_legacy from the k-th list on
RECURSIVE lists_with_measurements(_, _, _)
lists_with_measurements(soup, lists, k) ==
    IF k > Len(lists) THEN PyNone
    ELSE LET items == extract_from_list(soup[lists[k]])
             measurement_count ==
                 Cardinality({n \in 1..Len(items) :
                                 ReSearch(MEASUREMENT_PATTERN, Lower(items[n]))})
         IN  IF /\ items # <<>>
                /\ measurement_count >= 2
                /\ measurement_count * 10 >= Len(items) * 3
             THEN PyStr(DashList(items))
             ELSE lists_with_measurements(soup, lists, k + 1)

ingredient_classes ==
    {"ing", "ingt", "ings", "ingst", "ingd", "ingredient", "ing-item",
     "recipe-ingredient"}

\* IngredientsExtractor._extract_from_paragraph_classes(soup)
_extract_from_paragraph_classes(soup) ==
    LET skip_patterns == {"ingredients", "you will need", "you'll need",
                          "what you need", "shopping list"}
        Valid(i) ==
            LET text == soup[i].text
            IN  /\ \E n \in 1..Len(soup[i].class) :
                      soup[i].class[n] \in ingredient_classes
                /\ Len(text) >= 3
                /\ \A pattern \in skip_patterns : ~Contains(Lower(text), pattern)
                /\ ~(StartsWith(Lower(text), "for the ") /\ Len(text) < 40)
        paras == SelectSeq(find_all(soup, {"p"}), Valid)
    IN  IF Len(paras) >= 3
        THEN PyStr(DashList([k \in 1..Len(paras) |-> soup[paras[k]].text]))
        ELSE PyNone

\* strategy 3 of _extract_legacy from the k-th paragraph on, run being
\* consecutive_ingredients
RECURSIVE consecutive_paragraphs(_, _, _, _)
consecutive_paragraphs(soup, paras, k, run) ==
    IF k > Len(paras)
    THEN IF Len(run) >= 3 THEN PyStr(DashList(run)) ELSE PyNone
    ELSE LET text_content == soup[paras[k]].text
         IN  IF ~(Len(text_content) >= 10 /\ Len(text_content) < 150)
             THEN consecutive_paragraphs(soup, paras, k + 1, run)
             ELSE IF ReSearch(MEASUREMENT_PATTERN, Lower(text_content))
             THEN consecutive_paragraphs(soup, paras, k + 1,
                                         Append(run, text_content))
             ELSE IF Len(run) >= 3 THEN PyStr(DashList(run))
             ELSE consecutive_paragraphs(soup, paras, k + 1, <<>>)

\* IngredientsExtractor._extract_legacy(soup, text); text_ingredients is what
\* _extract_from_text(text) gives for the text passed
_extract_legacy(soup, text_ingredients) ==
    LET ingredients == find_section_by_header(soup, INGREDIENT_KEYWORDS)
        in_list == lists_with_measurements(soup, find_all(soup, ListTags), 1)
        para_ingredients == _extract_from_paragraph_classes(soup)
        consecutive == consecutive_paragraphs(soup, find_all(soup, {"p"}), 1, <<>>)
    IN  IF LongerThan(ingredients, 50) THEN ingredients
        ELSE IF in_list.kind # "none" THEN in_list
        ELSE IF Truthy(para_ingredients) THEN para_ingredients
        ELSE IF consecutive.kind # "none" THEN consecutive
        ELSE IF Truthy(text_ingredients) THEN text_ingredients
        ELSE PyNone


(***************************************************************************)
(* extractors/instructions.py: the legacy strategy chain                   *)
(***************************************************************************)
INSTRUCTION_CLASSES ==
    {"method", "step", "instruction", "direction", "preparation",
     "noindentt", "noindent", "noindentp", "methodp", "stepp", "dir", "proc",
     "procedure"}

INSTRUCTION_KEYWORDS ==
    {"instruction", "direction", "method", "preparation", "how to", "steps",
     "to make", "to prepare", "to cook", "to serve", "let's cook",
     "cooking instructions", "recipe method", "the method"}

\* NARRATIVE_INSTRUCTION_PREFIXES (re.IGNORECASE: applied to the lowered text)
NARRATIVE_INSTRUCTION_PREFIXES ==
    Cat(<< Words(<<"to make", "to prepare", "to cook", "to assemble",
                   "to serve", "for the">>),
           Plus(Space), Opt(Cat(<<Lit("the"), Plus(Space)>>)),
           Plus(Cls(WordChars)), Cls(Spaces \cup {":"}) >>)

STOP_PATTERNS ==
    << Cat(<<Lit("tip"), Opt(Lit("s")), Lit(":")>>),
       Cat(<<Lit("note"), Opt(Lit("s")), Lit(":")>>),
       Cat(<<Lit("serving suggestion"), Opt(Lit("s")), Lit(":")>>),
       Cat(<<Lit("variation"), Opt(Lit("s")), Lit(":")>>),
       Cat(<<Lit("chef"), Opt(Lit("'")), Opt(Lit("s")), Lit(" note:")>>),
       Lit("what else"), Lit("storage:"), Lit("make ahead:") >>

\* InstructionsExtractor._is_stop_pattern(text)
_is_stop_pattern(text) ==
    \E n \in 1..Len(STOP_PATTERNS) : ReMatch(STOP_PATTERNS[n], Strip(Lower(text)))

\* len(COOKING_VERBS_PATTERN.findall(text.lower()))
cooking_verb_count(text) == FindallCount(COOKING_VERBS_PATTERN, Lower(text))
\* len(MEASUREMENT_PATTERN.findall(text))
measurement_count(text) == FindallCount(MEASUREMENT_PATTERN, Lower(text))
\* len(text.split())
word_count(text) ==
    Cardinality({i \in 1..Len(text) :
                    /\ Char(text, i) \notin Spaces
                    /\ (i = 1 \/ Char(text, i - 1) \in Spaces)})

\* any(skip in class_str for skip in skips)
class_has_any(elem, skips) == \E skip \in skips : Contains(class_str(elem), skip)

\* "\n\n".join(paragraphs) when there are at least n of them
joined_if_at_least(paragraphs, n) ==
    IF Len(paragraphs) >= n THEN PyStr(Join(paragraphs, "\n\n")) ELSE PyNone

\* the texts of the paragraphs at the positions that satisfy Keep
paragraph_texts(soup, Keep(_)) ==
    LET paras == SelectSeq(find_all(soup, {"p"}), Keep)
    IN  [k \in 1..Len(paras) |-> soup[paras[k]].text]

\* InstructionsExtractor._extract_by_class(soup)
_extract_by_class(soup) ==
    LET Keep(i) == /\ soup[i].class # <<>>
                   /\ class_has_any(soup[i], INSTRUCTION_CLASSES)
                   /\ Len(soup[i].text) >= 30
    IN  joined_if_at_least(paragraph_texts(soup, Keep), 2)

\* InstructionsExtractor._extract_by_header(soup)
_extract_by_header(soup) ==
    find_section_by_header(soup,
        INSTRUCTION_KEYWORDS \cup
            {"to make", "how to prepare", "let's cook", "cooking instructions",
             "recipe method", "the method"})

\* InstructionsExtractor._extract_narrative_with_prefix(soup)
_extract_narrative_with_prefix(soup) ==
    LET Keep(i) ==
            LET text_content == soup[i].text
            IN  /\ Len(text_content) >= 50
                /\ ReMatch(NARRATIVE_INSTRUCTION_PREFIXES, Lower(text_content))
                /\ ~(measurement_count(text_content)
                        > cooking_verb_count(text_content) * 2)
                /\ cooking_verb_count(text_content) >= 2
    IN  joined_if_at_least(paragraph_texts(soup, Keep), 1)

NonInstructionClasses == {"item", "ingredient", "serv", "yield", "time", "ihead"}

\* InstructionsExtractor._extract_long_narrative(soup)
_extract_long_narrative(soup) ==
    LET Keep(i) ==
            LET text_content == soup[i].text
                verbs == cooking_verb_count(text_content)
            IN  /\ Len(text_content) >= 150
                /\ ~class_has_any(soup[i], NonInstructionClasses)
                /\ verbs >= 4
                /\ word_count(text_content) > 0
                /\ verbs * 200 >= 3 * word_count(text_content)
                /\ measurement_count(text_content) <= verbs * 2
    IN  joined_if_at_least(paragraph_texts(soup, Keep), 1)


\* the loop of InstructionsExtractor._extract_post_ingredients from the k-th
\* element on: st holds past_ingredients, ingredient_header_count and
\* instruction_paragraphs
RECURSIVE post_ingredients_loop(_, _, _, _)
post_ingredients_loop(soup, elems, k, st) ==
    IF k > Len(elems) THEN st.paragraphs
    ELSE
    LET element == soup[elems[k]]
        text_content == Lower(element.text)
        is_likely_header ==
            \/ Len(text_content) < 50
            \/ Contains(class_str(element), "head")
            \/ element.name \in HeaderTags
        next(st2) == post_ingredients_loop(soup, elems, k + 1, st2)
        verb_count == cooking_verb_count(text_content)
    IN  IF \/ is_likely_header /\ \E keyword \in
                  {"for the", "you'll need", "you will need", "to serve",
                   "to garnish", "for serving"} : Contains(text_content, keyword)
           \/ is_likely_header /\ Strip(text_content) = "ingredients"
        THEN next([st EXCEPT !.count = @ + 1, !.past = FALSE])
        ELSE IF \E keyword \in INSTRUCTION_KEYWORDS :
                    Contains(text_content, keyword)
        THEN next([st EXCEPT !.past = TRUE])
        ELSE IF ~(element.name = "p" /\ st.count > 0) THEN next(st)
        ELSE IF class_has_any(element, {"item", "ingredient", "serv", "yield",
                                        "time"})
        THEN next(st)
        ELSE IF verb_count >= 2 /\ Len(text_content) >= 40
        THEN next([st EXCEPT !.past = TRUE,
                             !.paragraphs = Append(@, element.text)])
        ELSE IF st.past /\ verb_count >= 1 /\ Len(text_content) >= 40
        THEN IF _is_stop_pattern(text_content)
             THEN Append(st.paragraphs, element.text)
             ELSE next([st EXCEPT !.paragraphs = Append(@, element.text)])
        ELSE next(st)

\* InstructionsExtractor._extract_post_ingredients(soup)
_extract_post_ingredients(soup) ==
    joined_if_at_least(
        post_ingredients_loop(soup, find_all(soup, HeaderTags \cup {"p"}), 1,
                              [past |-> FALSE, count |-> 0, paragraphs |-> <<>>]),
        2)

\* InstructionsExtractor._extract_from_lists(soup) from the k-th list on
RECURSIVE lists_with_verbs(_, _, _)
lists_with_verbs(soup, lists, k) ==
    IF k > Len(lists) THEN PyNone
    ELSE LET items == extract_from_list(soup[lists[k]])
             combined_text == Lower(Join(items, " "))
         IN  IF /\ Len(items) >= 2
                /\ cooking_verb_count(combined_text) >= 3
                /\ Len(combined_text) > 100
             THEN PyStr(Join([i \in 1..Len(items) |->
                                 ToString(i) \o ". " \o items[i]], "\n\n"))
             ELSE lists_with_verbs(soup, lists, k + 1)

_extract_from_lists(soup) == lists_with_verbs(soup, find_all(soup, ListTags), 1)

\* the loop of InstructionsExtractor._extract_by_cooking_verbs from the k-th
\* paragraph on: st holds in_instruction_section, consecutive_low_verb_count
\* and instruction_paragraphs
RECURSIVE cooking_verbs_loop(_, _, _, _)
cooking_verbs_loop(soup, paras, k, st) ==
    IF k > Len(paras) THEN st.paragraphs
    ELSE
    LET paragraph == soup[paras[k]]
        text_content == paragraph.text
        verbs == cooking_verb_count(text_content)
        next(st2) == cooking_verbs_loop(soup, paras, k + 1, st2)
    IN  IF Len(text_content) < 40 THEN next(st)
        ELSE IF class_has_any(paragraph, NonInstructionClasses) THEN next(st)
        ELSE IF verbs >= 2
        THEN next([inside |-> TRUE, low |-> 0,
                   paragraphs |-> Append(st.paragraphs, text_content)])
        ELSE IF st.inside /\ verbs >= 1
        THEN next([st EXCEPT !.low = 0,
                             !.paragraphs = Append(@, text_content)])
        ELSE IF st.inside /\ Len(text_content) < 100
        THEN IF st.low + 1 >= 2 THEN st.paragraphs
             ELSE next([st EXCEPT !.low = @ + 1,
                                  !.paragraphs = Append(@, text_content)])
        ELSE IF st.inside
        THEN IF \/ _is_stop_pattern(Lower(text_content))
                \/ Len(st.paragraphs) >= 3 /\ verbs = 0
             THEN st.paragraphs
             ELSE next(st)
        ELSE next(st)

\* InstructionsExtractor._extract_by_cooking_verbs(soup)
_extract_by_cooking_verbs(soup) ==
    joined_if_at_least(
        cooking_verbs_loop(soup, find_all(soup, {"p"}), 1,
                           [inside |-> FALSE, low |-> 0, paragraphs |-> <<>>]),
        2)

\* InstructionsExtractor._extract_any_cooking_paragraph(soup)
_extract_any_cooking_paragraph(soup) ==
    LET Candidate(i) ==
            LET text_content == soup[i].text
            IN  /\ Len(text_content) >= 100
                /\ ~class_has_any(soup[i], NonInstructionClasses \cup {"intro"})
                /\ cooking_verb_count(text_content) >= 3
                /\ measurement_count(text_content)
                       <= cooking_verb_count(text_content)
        paras == SelectSeq(find_all(soup, {"p"}), Candidate)
        verbs(k) == cooking_verb_count(soup[paras[k]].text)
    IN  IF Len(paras) = 0 THEN PyNone
        ELSE LET best == CHOOSE k \in 1..Len(paras) :
                            /\ \A j \in 1..Len(paras) : verbs(j) <= verbs(k)
                            /\ \A j \in 1..(k - 1) : verbs(j) < verbs(k)
             IN  PyStr(soup[paras[best]].text)

\* the results of the eight strategies of InstructionsExtractor.extract, in
\* the order in which it tries them
instruction_strategies(soup) ==
    << _extract_by_class(soup), _extract_by_header(soup),
       _extract_narrative_with_prefix(soup), _extract_long_narrative(soup),
       _extract_post_ingredients(soup), _extract_from_lists(soup),
       _extract_by_cooking_verbs(soup), _extract_any_cooking_paragraph(soup) >>

\* `if instructions and len(instructions) > 100`
accepted(instructions) == LongerThan(instructions, 100)

\* InstructionsExtractor.extract(soup, text)
instructions_extract(soup) ==
    LET results == instruction_strategies(soup)
        wins == {n \in 1..Len(results) : accepted(results[n])}
    IN  IF wins = {} THEN PyNone
        ELSE results[CHOOSE n \in wins : \A m \in wins : n <= m]


(***************************************************************************)
(* The legacy chains applied to every section built from a few elements    *)
(***************************************************************************)
MaxElements == 3

IngredientsHeader == Element("h2", <<>>, "Ingredients", <<>>)
ShortList == Element("ul", <<>>, "", <<"2 cups flour", "1 tsp salt", "3 eggs">>)
LongList ==
    Element("ul", <<>>, "",
            <<"2 cups all-purpose flour", "1 tsp fine sea salt", "3 large eggs">>)
InstructionsHeader == Element("h2", <<>>, "Instructions", <<>>)
StepList ==
    Element("ol", <<>>, "", <<"Preheat oven to 350.", "Mix and bake 30 minutes.">>)
MethodParagraph ==
    Element("p", <<"method">>, "Heat the oil and add the onion, then stir well.",
            <<>>)
PlainParagraph ==
    Element("p", <<>>, "Pour the sauce over and bake until golden brown.", <<>>)
IngredientParagraph == Element("p", <<"ing">>, "2 cups flour", <<>>)

SectionElements ==
    {IngredientsHeader, ShortList, LongList, InstructionsHeader, StepList,
     MethodParagraph, PlainParagraph, IngredientParagraph}

\* the sections: up to MaxElements sibling elements
Soups == UNION {[1..n -> SectionElements] : n \in 1..MaxElements}

\* what _extract_from_text gives for the text passed along with the soup
TextIngredients == {PyNone, PyStr(DashList(LongList.items))}

LegacyCalls ==
    {[component |-> "ingredients", soup |-> soup, text_ingredients |-> ti] :
        soup \in Soups, ti \in TextIngredients}
    \cup {[component |-> "instructions", soup |-> soup,
           text_ingredients |-> PyNone] : soup \in Soups}

LegacyInit ==
    /\ fCall = None
    /\ fArgs \in LegacyCalls
    /\ fResult = Pending
    /\ ScorerIdle
    /\ ValidatorIdle
    /\ ExtractorIdle
    /\ PipelineIdle

\* IngredientsExtractor._extract_legacy(soup, text)
ExtractLegacy ==
    /\ fCall = None
    /\ fArgs.component = "ingredients"
    /\ fCall' = "_extract_legacy"
    /\ fResult' = Returned(_extract_legacy(fArgs.soup, fArgs.text_ingredients))
    /\ UNCHANGED <<fArgs, scorerVars, validatorVars, extractorVars,
                   pipelineVars>>

\* InstructionsExtractor.extract(soup, text)
InstructionsExtract ==
    /\ fCall = None
    /\ fArgs.component = "instructions"
    /\ fCall' = "extract"
    /\ fResult' = Returned(instructions_extract(fArgs.soup))
    /\ UNCHANGED <<fArgs, scorerVars, validatorVars, extractorVars,
                   pipelineVars>>

LegacyNext == ExtractLegacy \/ InstructionsExtract
SpecLegacy == LegacyInit /\ [][LegacyNext]_vars

(***************************************************************************)
(* Claims about the legacy chains                                          *)
(***************************************************************************)
\* the call named has returned a text
LegacyReturnedText(call) ==
    fCall = call /\ fResult.status = "returned" /\ fResult.value.kind = "str"

\* C11: every text IngredientsExtractor._extract_legacy returns is longer
\* than 50 characters and every text InstructionsExtractor.extract returns is
\* longer than 100 characters; the text returned is that of the first
\* strategy, in priority order, whose text is over the minimum, the earlier
\* ones having been passed over.
C11_LegacyTextOverMinimum ==
    /\ LegacyReturnedText("_extract_legacy") => Len(fResult.value.s) > 50
    /\ LegacyReturnedText("extract") =>
          /\ Len(fResult.value.s) > 100
          /\ \E n \in 1..8 :
                /\ fResult.value = instruction_strategies(fArgs.soup)[n]
                /\ \A m \in 1..(n - 1) :
                      ~LongerThan(instruction_strategies(fArgs.soup)[m], 100)


(***************************************************************************)
(* core/patterns/*_structural.py: what a detector makes of the zones its   *)
(* strategies propose. A proposed zone is [elem, detection_method,         *)
(* confidence]: elem is the Tag it wraps, a position in the document tree  *)
(***************************************************************************)
\* the document the detectors look at: element e has the tag DocumentTags[e]
\* and the parent DocumentParent[e] (0: it is a child of the body); two
\* elements of the same DocumentShape have the same name, attributes and
\* contents, which is what == on two Tags compares
\* (elements 1 and 4 are two equal blocks with one list each; element 6
\* holds two lists)
DocumentTags == <<"div", "ul", "ol", "div", "ul", "div", "ul", "ol">>
DocumentParent == <<0, 1, 0, 0, 4, 0, 6, 6>>
DocumentShape == <<"a", "b", "c", "a", "b", "d", "e", "f">>
DocumentElements == 1..Len(DocumentTags)

\* the elements on the path from e to the root, e excluded
RECURSIVE Ancestors(_)
Ancestors(e) ==
    IF DocumentParent[e] = 0 THEN {}
    ELSE {DocumentParent[e]} \cup Ancestors(DocumentParent[e])

\* tag_a == tag_b
SameTag(a, b) == a = b \/ DocumentShape[a] = DocumentShape[b]

\* the replacement on equal confidence as well
replaces_on_ties(zone, seen) == zone.confidence >= seen.confidence
\* `if zone.confidence > seen_elements[zone_id].confidence`
replaces(zone, seen) == zone.confidence > seen.confidence

\* the loop of _deduplicate_zones of the ingredient and of the instruction
\* detector from the k-th zone on; seen holds the values of the dict keyed by
\* id(zone.zone), in insertion order
RECURSIVE deduplicate_loop(_, _, _)
deduplicate_loop(zones, k, seen) ==
    IF k > Len(zones) THEN seen
    ELSE LET zone == zones[k]
             at == {n \in 1..Len(seen) : seen[n].elem = zone.elem}
         IN  IF at = {}
             THEN deduplicate_loop(zones, k + 1, Append(seen, zone))
             ELSE LET n == CHOOSE m \in at : TRUE
                  IN  IF replaces(zone, seen[n])
                      THEN deduplicate_loop(zones, k + 1,
                                            [seen EXCEPT ![n] = zone])
                      ELSE deduplicate_loop(zones, k + 1, seen)

\* IngredientStructuralDetector._deduplicate_zones and
\* InstructionStructuralDetector._deduplicate_zones
_deduplicate_zones(zones) == deduplicate_loop(zones, 1, <<>>)

\* MetadataStructuralDetector._is_descendant(potential_child, potential_parent)
_is_descendant(potential_child, potential_parent) ==
    \E current \in Ancestors(potential_child) : SameTag(current, potential_parent)

\* existing_zone == zone for two MetadataZone dataclass instances
SameZone(a, b) ==
    /\ SameTag(a.elem, b.elem)
    /\ a.detection_method = b.detection_method
    /\ a.confidence = b.confidence

\* unique_zones.remove(existing_zone): the first zone equal to it goes
list_remove(unique_zones, existing_zone) ==
    LET first == CHOOSE n \in 1..Len(unique_zones) :
                    /\ SameZone(unique_zones[n], existing_zone)
                    /\ \A m \in 1..(n - 1) :
                          ~SameZone(unique_zones[m], existing_zone)
    IN  SubSeq(unique_zones, 1, first - 1)
            \o SubSeq(unique_zones, first + 1, Len(unique_zones))

\* the loop of MetadataStructuralDetector._deduplicate_zones from the k-th of
\* the sorted zones on; st holds unique_zones and seen_elements
RECURSIVE metadata_deduplicate_loop(_, _, _)
metadata_deduplicate_loop(sorted_zones, k, st) ==
    IF k > Len(sorted_zones) THEN st.unique_zones
    ELSE
    LET zone == sorted_zones[k]
        next(st2) == metadata_deduplicate_loop(sorted_zones, k + 1, st2)
        \* the existing zones at which the inner loop stops
        stops == {n \in 1..Len(st.unique_zones) :
                    \/ _is_descendant(zone.elem, st.unique_zones[n].elem)
                    \/ _is_descendant(st.unique_zones[n].elem, zone.elem)}
        n == CHOOSE m \in stops : \A j \in stops : m <= j
        added(unique_zones, seen_elements) ==
            [unique_zones |-> Append(unique_zones, zone),
             seen_elements |-> seen_elements \cup {zone.elem}]
    IN  IF zone.elem \in st.seen_elements THEN next(st)
        ELSE IF stops = {} THEN next(added(st.unique_zones, st.seen_elements))
        ELSE IF _is_descendant(zone.elem, st.unique_zones[n].elem) THEN next(st)
        ELSE next(added(list_remove(st.unique_zones, st.unique_zones[n]),
                        st.seen_elements \ {st.unique_zones[n].elem}))

\* MetadataStructuralDetector._deduplicate_zones(zones)
metadata_deduplicate_zones(zones) ==
    metadata_deduplicate_loop(SortByConfidence(zones), 1,
                              [unique_zones |-> <<>>, seen_elements |-> {}])

\* find_ingredient_zones, find_instruction_zones and find_metadata_zones
\* from the zones the strategies propose, in the order of the strategies
find_zones(family, proposed) ==
    IF family = "ingredients"
    THEN find_ingredient_zones(_deduplicate_zones(proposed))
    ELSE IF family = "instructions"
    THEN find_instruction_zones(_deduplicate_zones(proposed))
    ELSE metadata_deduplicate_zones(proposed)


(***************************************************************************)
(* The detectors applied to every list of proposed zones                   *)
(***************************************************************************)
MaxProposals == 3

\* what a strategy can propose: its detection_method and confidence, the
\* tags of the elements it can flag, its place among the strategies and
\* whether it can flag one element twice
ProposalKind(method, confidence, strategy, tags, repeats) ==
    [detection_method |-> method, confidence |-> confidence,
     strategy |-> strategy, tags |-> tags, repeats |-> repeats]

ProposalKinds(family) ==
    IF family = "ingredients"
    THEN {ProposalKind("css_class", 90, 2, {"div", "ul", "ol"}, FALSE),
          ProposalKind("id_attribute", 85, 3, {"div", "ul", "ol"}, FALSE),
          ProposalKind("header_based", 85, 4, {"ul", "ol"}, FALSE),
          ProposalKind("list_based", 75, 5, {"ul", "ol"}, FALSE),
          ProposalKind("paragraph_class", 75, 6, {"div"}, FALSE)}
    ELSE IF family = "instructions"
    THEN {ProposalKind("css_class", 90, 1, {"div"}, FALSE),
          ProposalKind("header", 85, 2, {"div", "ul", "ol"}, FALSE),
          ProposalKind("post_ingredients", 75, 3, {"div"}, TRUE),
          ProposalKind("numbered_list", 80, 4, {"ol"}, FALSE)}
    ELSE {ProposalKind("schema_org", 95, 1, {"div"}, TRUE),
          ProposalKind("css_class", 90, 2, {"div", "ul", "ol"}, FALSE),
          ProposalKind("header", 85, 3, {"div", "ul"}, FALSE),
          ProposalKind("list_structure", 75, 4, {"ul"}, FALSE),
          ProposalKind("early_position", 70, 5, {"div"}, FALSE)}

Proposal(kind, elem) ==
    [elem |-> elem, detection_method |-> kind.detection_method,
     confidence |-> kind.confidence]

\* the lists of zones the strategies of a detector can propose: the
\* strategies run in their order, and a strategy goes through the document
\* from its beginning
ProposedZones(family) ==
    LET Flags == {<<kind, elem>> \in ProposalKinds(family) \X DocumentElements :
                     DocumentTags[elem] \in kind.tags}
        InOrder(a, b) ==
            \/ a[1].strategy < b[1].strategy
            \/ /\ a[1] = b[1]
               /\ (a[2] < b[2] \/ (a[1].repeats /\ a[2] = b[2]))
    IN  UNION {
            {[i \in 1..n |-> Proposal(fs[i][1], fs[i][2])] :
                fs \in {gs \in [1..n -> Flags] :
                           \A i \in 1..(n - 1) : InOrder(gs[i], gs[i + 1])}}
            : n \in 0..MaxProposals}

DetectorCalls ==
    UNION {[family : {family}, proposed : ProposedZones(family)] :
              family \in {"ingredients", "instructions", "metadata"}}

ZonesInit ==
    /\ fCall = None
    /\ fArgs \in DetectorCalls
    /\ fResult = Pending
    /\ ScorerIdle
    /\ ValidatorIdle
    /\ ExtractorIdle
    /\ PipelineIdle

\* IngredientStructuralDetector.find_ingredient_zones(soup)
FindIngredientZones ==
    /\ fCall = None
    /\ fArgs.family = "ingredients"
    /\ fCall' = "find_ingredient_zones"
    /\ fResult' = Returned(find_zones("ingredients", fArgs.proposed))
    /\ UNCHANGED <<fArgs, scorerVars, validatorVars, extractorVars,
                   pipelineVars>>

\* InstructionStructuralDetector.find_instruction_zones(soup)
FindInstructionZones ==
    /\ fCall = None
    /\ fArgs.family = "instructions"
    /\ fCall' = "find_instruction_zones"
    /\ fResult' = Returned(find_zones("instructions", fArgs.proposed))
    /\ UNCHANGED <<fArgs, scorerVars, validatorVars, extractorVars,
                   pipelineVars>>

\* MetadataStructuralDetector.find_metadata_zones(soup)
FindMetadataZones ==
    /\ fCall = None
    /\ fArgs.family = "metadata"
    /\ fCall' = "find_metadata_zones"
    /\ fResult' = Returned(find_zones("metadata", fArgs.proposed))
    /\ UNCHANGED <<fArgs, scorerVars, validatorVars, extractorVars,
                   pipelineVars>>

ZonesNext == FindIngredientZones \/ FindInstructionZones \/ FindMetadataZones
SpecZones == ZonesInit /\ [][ZonesNext]_vars

(***************************************************************************)
(* Claims about the structural detectors                                   *)
(***************************************************************************)
\* a detector has returned its list of zones
Detected == fCall # None /\ fResult.status = "returned"
\* the zones of a list that wrap the element e
ZonesOn(zones, e) == {n \in 1..Len(zones) : zones[n].elem = e}
\* the elements the strategies proposed
ProposedElements == {fArgs.proposed[n].elem : n \in 1..Len(fArgs.proposed)}
\* the highest confidence proposed for the element e
HighestProposed(e) ==
    LET on == ZonesOn(fArgs.proposed, e)
    IN  fArgs.proposed[CHOOSE n \in on :
            \A m \in on :
               fArgs.proposed[m].confidence <= fArgs.proposed[n].confidence
        ].confidence

C13_ContainerKeptOnlyIfNotLower ==
    (Detected /\ fArgs.family \in {"ingredients", "metadata"}) =>
        \A outer, inner \in ProposedElements :
            outer \in Ancestors(inner) =>
                /\ \A n \in ZonesOn(fResult.value, outer) :
                      fResult.value[n].confidence >= HighestProposed(inner)
                /\ HighestProposed(outer) < HighestProposed(inner) =>
                      ZonesOn(fResult.value, inner) # {}

\* C14: when several strategies flag the same element, the result of the
\* ingredient and of the instruction detector holds exactly one zone for it,
\* whose confidence is the highest proposed for it, and which is the first
\* one proposed with that confidence.
C14_OneZonePerElementHighestFirst ==
    (Detected /\ fArgs.family \in {"ingredients", "instructions"}) =>
        \A e \in ProposedElements :
            LET kept == ZonesOn(fResult.value, e)
                on == ZonesOn(fArgs.proposed, e)
                first == CHOOSE n \in on :
                            /\ fArgs.proposed[n].confidence = HighestProposed(e)
                            /\ \A m \in on : m < n =>
                                  fArgs.proposed[m].confidence < HighestProposed(e)
            IN  /\ Cardinality(kept) = 1
                /\ \A n \in kept : fResult.value[n] = fArgs.proposed[first]

\* an element flagged by two strategies with the same confidence has been
\* through a detector
C14_Witness ==
    /\ Detected
    /\ fArgs.family \in {"ingredients", "instructions"}
    /\ \E n, m \in 1..Len(fArgs.proposed) :
          /\ n < m
          /\ fArgs.proposed[n].elem = fArgs.proposed[m].elem
          /\ fArgs.proposed[n].confidence = fArgs.proposed[m].confidence
          /\ fArgs.proposed[n].detection_method
                # fArgs.proposed[m].detection_method
    /\ \E n, m \in 1..Len(fArgs.proposed) :
          /\ fArgs.proposed[n].elem = fArgs.proposed[m].elem
          /\ fArgs.proposed[n].confidence < fArgs.proposed[m].confidence

(***************************************************************************)
(* Python's floats, kept as exact fractions num / den with den > 0         *)
(***************************************************************************)
Abs(a) == IF a < 0 THEN 0 - a ELSE a

RECURSIVE GCD(_, _)
GCD(a, b) == IF b = 0 THEN a ELSE GCD(b, a % b)

\* the fraction n / d in lowest terms (d > 0)
Frac(n, d) ==
    LET g == GCD(Abs(n), d)
    IN  [num |-> n \div g, den |-> d \div g]

Zero == Frac(0, 1)
One == Frac(1, 1)
Whole(n) == Frac(n, 1)

FAdd(a, b) == Frac(a.num * b.den + b.num * a.den, a.den * b.den)
FSub(a, b) == Frac(a.num * b.den - b.num * a.den, a.den * b.den)
FMul(a, b) == Frac(a.num * b.num, a.den * b.den)
\* a / b for b > 0
FDiv(a, b) == Frac(a.num * b.den, a.den * b.num)
FLe(a, b) == a.num * b.den <= b.num * a.den
FLt(a, b) == a.num * b.den < b.num * a.den
\* min(a, b) and max(a, b) of Python: the first argument on ties
FMin(a, b) == IF FLt(b, a) THEN b ELSE a
FMax(a, b) == IF FLt(a, b) THEN b ELSE a
FAbs(a) == Frac(Abs(a.num), a.den)

\* sum(values)
RECURSIVE FSum(_)
FSum(values) ==
    IF Len(values) = 0 THEN Zero ELSE FAdd(values[1], FSum(Tail(values)))

\* sum(len(s) for s in strings)
RECURSIVE TotalLen(_)
TotalLen(strings) ==
    IF Len(strings) = 0 THEN 0 ELSE Len(strings[1]) + TotalLen(Tail(strings))

\* text.split(): the maximal runs of characters that are not whitespace
SplitWords(s) ==
    LET starts == SortedSeq({i \in 1..Len(s) :
                               /\ Char(s, i) \notin Spaces
                               /\ (i = 1 \/ Char(s, i - 1) \in Spaces)})
        ends == SortedSeq({i \in 1..Len(s) :
                             /\ Char(s, i) \notin Spaces
                             /\ (i = Len(s) \/ Char(s, i + 1) \in Spaces)})
    IN  [k \in 1..Len(starts) |-> SubSeq(s, starts[k], ends[k])]

\* word.rstrip(chars)
RECURSIVE RStripChars(_, _)
RStripChars(word, chars) ==
    IF Len(word) > 0 /\ Char(word, Len(word)) \in chars
    THEN RStripChars(SubSeq(word, 1, Len(word) - 1), chars)
    ELSE word

\* [s.strip() for s in re.split(r'[chars]+', text) if s.strip()]
SplitOnChars(text, chars) ==
    LET at == SortedSeq({i \in 1..Len(text) : Char(text, i) \in chars})
        cut == <<0>> \o at \o <<Len(text) + 1>>
        raw == [k \in 1..(Len(at) + 1) |->
                   Strip(SubSeq(text, cut[k] + 1, cut[k + 1] - 1))]
    IN  SelectSeq(raw, LAMBDA piece : piece # "")

\* the number of members of a set of words that occur in the text
CountIn(words, text) == Cardinality({w \in words : Contains(text, w)})

(***************************************************************************)
(* core/patterns/analyzers.py: InstructionLinguisticAnalyzer               *)
(***************************************************************************)
INSTRUCTION_VERBS ==
    {"add", "mix", "stir", "cook", "bake", "boil", "simmer", "fry", "sauté",
     "chop", "dice", "slice", "mince", "blend", "whisk", "beat", "fold",
     "season", "taste", "serve", "garnish", "preheat", "combine", "pour",
     "heat", "brown", "reduce", "drain", "rinse", "cover", "remove",
     "place", "transfer", "spread", "grill", "roast", "broil"}

TEMPORAL_INDICATORS ==
    {"until", "after", "before", "while", "during", "when",
     "first", "then", "next", "finally", "meanwhile", "once"}

\* InstructionLinguisticAnalyzer.STOP_PATTERNS
AnalyzerStopPatterns ==
    {"tip", "tips", "note", "notes", "variation", "variations",
     "serving suggestion", "storage", "make ahead", "chef's note"}

\* _calculate_verb_presence(text) on the lowercase text
_calculate_verb_presence(text) ==
    LET words == SplitWords(text)
        verbs == {k \in 1..Len(words) :
                    RStripChars(words[k], {",", ".", ";", ":", "!", "?"})
                        \in INSTRUCTION_VERBS}
        verb_frequency == Frac(Cardinality(verbs) * 100, Len(words))
    IN  IF Len(words) = 0 THEN Zero
        ELSE IF FLe(Whole(2), verb_frequency) /\ FLe(verb_frequency, Whole(8))
        THEN One
        ELSE IF FLt(verb_frequency, Whole(2))
        THEN FDiv(verb_frequency, Whole(2))
        ELSE IF FLt(Whole(8), verb_frequency) /\ FLe(verb_frequency, Whole(12))
        THEN FSub(One, FDiv(FSub(verb_frequency, Whole(8)), Whole(8)))
        ELSE Zero

\* _calculate_temporal_score(text) on the lowercase text
_calculate_temporal_score(text) ==
    LET indicator_count == CountIn(TEMPORAL_INDICATORS, text)
    IN  IF indicator_count = 0 THEN Zero
        ELSE IF indicator_count >= 2 THEN One
        ELSE Frac(indicator_count, 2)

\* _analyze_sentence_structure(text)
_analyze_sentence_structure(text) ==
    LET sentences == SplitOnChars(text, {".", "!", "?"})
        avg_length == Frac(TotalLen(sentences), Len(sentences))
    IN  IF Len(sentences) = 0 THEN Zero
        ELSE IF FLe(Whole(40), avg_length) /\ FLe(avg_length, Whole(150))
        THEN One
        ELSE IF FLe(Whole(20), avg_length) /\ FLt(avg_length, Whole(40))
        THEN FDiv(FSub(avg_length, Whole(20)), Whole(20))
        ELSE IF FLt(Whole(150), avg_length) /\ FLe(avg_length, Whole(250))
        THEN FSub(One, FDiv(FSub(avg_length, Whole(150)), Whole(100)))
        ELSE Zero

\* _check_stop_patterns(text) on the lowercase text
_check_stop_patterns(text) ==
    LET stop_count == CountIn(AnalyzerStopPatterns, text)
    IN  IF \E pattern \in AnalyzerStopPatterns : StartsWith(Strip(text), pattern)
        THEN Zero
        ELSE IF stop_count = 0 THEN One
        ELSE IF stop_count = 1 THEN Frac(1, 2)
        ELSE Zero

\* the score as it is, not brought into [0, 1]
Clamp_unclamped(score) == score

\* max(0.0, min(score, 1.0))
Clamp(score) == FMax(Zero, FMin(score, One))

\* the weighted sum of the four components, before the clamp
instruction_score_sum(text) ==
    FSum(<<FMul(_calculate_verb_presence(Lower(text)), Frac(4, 10)),
           FMul(_calculate_temporal_score(Lower(text)), Frac(3, 10)),
           FMul(_analyze_sentence_structure(text), Frac(2, 10)),
           FMul(_check_stop_patterns(Lower(text)), Frac(1, 10))>>)

\* InstructionLinguisticAnalyzer.calculate_instruction_score(text)
calculate_instruction_score(text) ==
    IF text = "" \/ Len(Strip(text)) < 10 THEN Zero
    ELSE IF Len(StrippedLines(text)) = 0 THEN Zero
    ELSE Clamp(instruction_score_sum(text))

(***************************************************************************)
(* The confidence and score functions applied to every text                *)
(***************************************************************************)
MaxTextLines == 2

\* what a text can open with: nothing, or a phrase that marks a remark
TextOpenings == {"", "Tip: ", "Note: ", "Variation: "}

TextLines ==
    <<"Stir the sauce until thick.", "Then serve it hot with rice.",
      "2 cups fresh chopped basil", "Serves 4", "Prep time: 20 minutes">>

\* up to MaxTextLines of the lines, in their order, one per line
TextBodies ==
    UNION {{[k \in 1..n |-> TextLines[pick[k]]] :
               pick \in {p \in [1..n -> 1..Len(TextLines)] :
                            \A i, j \in 1..n : i < j => p[i] < p[j]}} :
           n \in 0..MaxTextLines}

\* texts of fewer than 10 characters, two of them of fewer than 3, and one
\* that is short only once it is stripped
ShortTexts == {"4", "6h", "   ", "1 cup", "Bake 1 hr", "   1 cup    "}

ScoredTexts ==
    {opening \o Join(body, "\n") :
        opening \in TextOpenings, body \in TextBodies} \cup ShortTexts


\* the function named has returned
Calculated(function) == fCall = function /\ fResult.status = "returned"

(***************************************************************************)
(* Matches with a group: patterns of the form head (group) tail            *)
(***************************************************************************)
NoMatch == [found |-> FALSE]

\* the ends of the group from each end of the head
GroupEnds(group, t, hs) == [a \in 1..Len(hs) |-> Ends(group, t, hs[a])]

\* the pairs (end of the head, end of the group) from which the tail matches
MatchPairs(tail, t, gs) ==
    {p \in (1..Len(gs)) \X (1..(Len(t) + 1)) :
        /\ p[2] <= Len(gs[p[1]])
        /\ Len(Ends(tail, t, gs[p[1]][p[2]])) > 0}

\* the match object of a match from i whose head ends at h and group at g
MatchRecord(tail, t, i, h, g) ==
    [found |-> TRUE,
     group0 |-> SubSeq(t, i, Ends(tail, t, g)[1] - 1),
     group1 |-> SubSeq(t, h, g - 1),
     before_tail |-> SubSeq(t, i, g - 1)]

\* the pair a backtracking matcher tries first
FirstPair(pairs) ==
    CHOOSE p \in pairs :
        \A q \in pairs : p[1] < q[1] \/ (p[1] = q[1] /\ p[2] <= q[2])

MatchOfPairs(tail, t, i, hs, gs, pairs) ==
    IF pairs = {} THEN NoMatch
    ELSE MatchRecord(tail, t, i, hs[FirstPair(pairs)[1]],
                     gs[FirstPair(pairs)[1]][FirstPair(pairs)[2]])

MatchOfEnds(tail, t, i, hs, gs) ==
    MatchOfPairs(tail, t, i, hs, gs, MatchPairs(tail, t, gs))

\* the match of head (group) tail that starts at position i of t, as a
\* backtracking matcher finds it: the first end of the head, then the first
\* end of the group, from which the rest matches
MatchAt(head, group, tail, t, i) ==
    MatchOfEnds(tail, t, i, Ends(head, t, i),
                GroupEnds(group, t, Ends(head, t, i)))

\* the leftmost of the matches ms, one for each start
LeftmostMatch(ms) ==
    IF \A i \in DOMAIN ms : ~ms[i].found THEN NoMatch
    ELSE ms[CHOOSE i \in DOMAIN ms :
                ms[i].found /\ \A j \in DOMAIN ms : ms[j].found => i <= j]

\* pattern.search(t) for the pattern head (group) tail: the leftmost match
Search(head, group, tail, t) ==
    LeftmostMatch([i \in 1..(Len(t) + 1) |-> MatchAt(head, group, tail, t, i)])

(***************************************************************************)
(* utils/patterns.py: the metadata patterns                                *)
(***************************************************************************)
Number == Plus(Digit)
ColonOrSpaces == Plus(Cls(Spaces \cup {":"}))

\* (?:serves?|servings?|yield[s]?|makes?)[:\s]+(\d+(?:\s*(?:-|to)\s*\d+)?)
SERVES_PATTERN(t) ==
    Search(Cat(<<Alt(<<Cat(<<Lit("serve"), Opt(Lit("s"))>>),
                       Cat(<<Lit("serving"), Opt(Lit("s"))>>),
                       Cat(<<Lit("yield"), Opt(Lit("s"))>>),
                       Cat(<<Lit("make"), Opt(Lit("s"))>>)>>),
               ColonOrSpaces>>),
           Cat(<<Number,
                 Opt(Cat(<<Star(Space), Words(<<"-", "to">>), Star(Space),
                           Number>>))>>),
           Lit(""), t)

\* (?:prep(?:aration)?|active|total)(?:\s*time)?[:\s]+([^.\n]+?)(?=\n|cook|$)
PREP_TIME_PATTERN(t) ==
    Search(Cat(<<Alt(<<Cat(<<Lit("prep"), Opt(Lit("aration"))>>),
                       Lit("active"), Lit("total")>>),
                 Opt(Cat(<<Star(Space), Lit("time")>>)),
                 ColonOrSpaces>>),
           LazyPlus(NotCls({".", "\n"})),
           Alt(<<Lit("\n"), Lit("cook"), Eol>>), t)

\* (?:cook(?:ing)?|passive|baking)(?:\s*time)?[:\s]+([^.\n]+?)(?=\n|prep|$)
COOK_TIME_PATTERN(t) ==
    Search(Cat(<<Alt(<<Cat(<<Lit("cook"), Opt(Lit("ing"))>>),
                       Lit("passive"), Lit("baking")>>),
                 Opt(Cat(<<Star(Space), Lit("time")>>)),
                 ColonOrSpaces>>),
           LazyPlus(NotCls({".", "\n"})),
           Alt(<<Lit("\n"), Lit("prep"), Eol>>), t)

COOKING_METHODS ==
    <<[method |-> "smoke", keywords |-> {"smoke", "smoked"}],
      [method |-> "grill", keywords |-> {"grill", "grilled"}],
      [method |-> "roast", keywords |-> {"roast", "roasted"}],
      [method |-> "bake", keywords |-> {"bake", "baked"}],
      [method |-> "fry", keywords |-> {"fry", "fried"}]>>

PROTEIN_TYPES ==
    <<"beef", "pork", "chicken", "lamb", "fish", "seafood", "turkey", "duck">>

(***************************************************************************)
(* extractors/metadata.py                                                  *)
(***************************************************************************)
PyInt(n) == [kind |-> "int", n |-> n]

DigitValue(c) ==
    CASE c = "0" -> 0 [] c = "1" -> 1 [] c = "2" -> 2 [] c = "3" -> 3
      [] c = "4" -> 4 [] c = "5" -> 5 [] c = "6" -> 6 [] c = "7" -> 7
      [] c = "8" -> 8 [] c = "9" -> 9

\* int(s) for a string of digits
RECURSIVE ParseInt(_)
ParseInt(s) ==
    IF Len(s) = 0 THEN 0
    ELSE ParseInt(SubSeq(s, 1, Len(s) - 1)) * 10 + DigitValue(Char(s, Len(s)))

RECURSIVE Power10(_)
Power10(n) == IF n = 0 THEN 1 ELSE 10 * Power10(n - 1)

\* int(float(s) * 60) for s of the form \d+(?:\.\d+)?
HoursToMinutes(s) ==
    LET dots == {i \in 1..Len(s) : Char(s, i) = "."}
        dot == IF dots = {} THEN Len(s) + 1 ELSE CHOOSE i \in dots : TRUE
        whole == ParseInt(SubSeq(s, 1, dot - 1))
        decimals == SubSeq(s, dot + 1, Len(s))
    IN  whole * 60 + (ParseInt(decimals) * 60) \div Power10(Len(decimals))

\* re.sub(r"\(.*?\)", "", s)
RECURSIVE RemoveParenthetical(_)
RemoveParenthetical(s) ==
    LET opens == {i \in 1..Len(s) :
                    /\ Char(s, i) = "("
                    /\ \E j \in (i + 1)..Len(s) :
                          /\ Char(s, j) = ")"
                          /\ \A m \in (i + 1)..(j - 1) : Char(s, m) # "\n"}
        i == CHOOSE a \in opens : \A b \in opens : a <= b
        j == CHOOSE a \in (i + 1)..Len(s) :
                /\ Char(s, a) = ")"
                /\ \A m \in (i + 1)..(a - 1) : Char(s, m) # ")"
    IN  IF opens = {} THEN s
        ELSE SubSeq(s, 1, i - 1)
                 \o RemoveParenthetical(SubSeq(s, j + 1, Len(s)))

\* (\d+)\s*(?:-|to)\s*(\d+)
RangeSeparator == Cat(<<Star(Space), Words(<<"-", "to">>), Star(Space)>>)

\* MetadataExtractor.parse_servings(raw_value): the number pattern
\* (\d+)\s*(?:-|to)\s*(\d+)|(\d+) matches first where the first digit is
parse_servings(raw_value) ==
    LET cleaned == Strip(RemoveParenthetical(raw_value))
        digits == {i \in 1..Len(cleaned) : Char(cleaned, i) \in Digits}
        i == CHOOSE a \in digits : \A b \in digits : a <= b
        low == MatchAt(Lit(""), Number, Cat(<<RangeSeparator, Number>>),
                       cleaned, i)
        high == MatchAt(Cat(<<Number, RangeSeparator>>), Number, Lit(""),
                        cleaned, i)
        single == MatchAt(Lit(""), Number, Lit(""), cleaned, i)
    IN  IF raw_value = "" \/ digits = {} THEN PyNone
        ELSE IF low.found THEN PyStr(low.group1 \o "-" \o high.group1)
        ELSE PyStr(single.group1)

\* (?:^|\s)-\s*\d
NegativeTime ==
    Cat(<<Alt(<<Bol, Space>>), Lit("-"), Star(Space), Digit>>)

\* (\d+(?:\.\d+)?)\s*(?:hour|hr)s?
hour_pattern(t) ==
    Search(Lit(""),
           Cat(<<Number, Opt(Cat(<<Lit("."), Number>>))>>),
           Cat(<<Star(Space), Words(<<"hour", "hr">>), Opt(Lit("s"))>>), t)

\* (\d+)\s*(?:minute|min)s?
minute_pattern(t) ==
    Search(Lit(""), Number,
           Cat(<<Star(Space), Words(<<"minute", "min">>), Opt(Lit("s"))>>), t)

\* the sum of the hour part and the minute part
total_minutes(raw) ==
    (IF hour_pattern(raw).found
     THEN HoursToMinutes(hour_pattern(raw).group1) ELSE 0)
    + (IF minute_pattern(raw).found
       THEN ParseInt(minute_pattern(raw).group1) ELSE 0)

\* the upper limit parse_time puts on a number of minutes
within_a_day_unlimited(minutes) == TRUE

within_a_day(minutes) == minutes <= 1440

\* MetadataExtractor.parse_time(raw_value)
parse_time(raw_value) ==
    LET raw == Strip(Lower(raw_value))
    IN  IF raw_value = "" THEN PyNone
        ELSE IF ReSearch(NegativeTime, raw) THEN PyNone
        ELSE IF total_minutes(raw) > 0 /\ within_a_day(total_minutes(raw))
        THEN PyInt(total_minutes(raw))
        ELSE IF ReMatch(Cat(<<Number, Eol>>), raw)
                /\ 0 < ParseInt(raw) /\ within_a_day(ParseInt(raw))
        THEN PyInt(ParseInt(raw))
        ELSE PyNone

\* the first method of COOKING_METHODS one of whose keywords is in the text
first_method(combined) ==
    LET hits == {n \in 1..Len(COOKING_METHODS) :
                    \E kw \in COOKING_METHODS[n].keywords : Contains(combined, kw)}
    IN  IF hits = {} THEN PyNone
        ELSE PyStr(COOKING_METHODS[CHOOSE n \in hits :
                                      \A m \in hits : n <= m].method)

\* the first protein of PROTEIN_TYPES that is in the text
first_protein(combined) ==
    LET hits == {n \in 1..Len(PROTEIN_TYPES) : Contains(combined, PROTEIN_TYPES[n])}
    IN  IF hits = {} THEN PyNone
        ELSE PyStr(PROTEIN_TYPES[CHOOSE n \in hits : \A m \in hits : n <= m])

\* metadata[key] = value when the value is there
PutIf(d, key, value) == IF value.kind = "none" THEN d ELSE Put(d, key, value.s)

\* str(minutes) of a parsed time, None when parse_time gave None
TimeStr(parsed) ==
    IF parsed.kind = "none" THEN PyNone ELSE PyStr(ToString(parsed.n))

\* MetadataExtractor.extract(soup, text, title)
metadata_extract(text, title) ==
    LET text_lower == Lower(text)
        combined == Lower(title \o " " \o text)
        serves_match == SERVES_PATTERN(text_lower)
        prep_match == PREP_TIME_PATTERN(text_lower)
        cook_match == COOK_TIME_PATTERN(text_lower)
        serves == IF serves_match.found
                  THEN parse_servings(serves_match.group1) ELSE PyNone
        prep_time == IF prep_match.found
                     THEN TimeStr(parse_time(Strip(prep_match.group1)))
                     ELSE PyNone
        cook_time == IF cook_match.found
                     THEN TimeStr(parse_time(Strip(cook_match.group1)))
                     ELSE PyNone
    IN  PutIf(PutIf(PutIf(PutIf(PutIf(EmptyDict,
            "serves", IF Truthy(serves) THEN serves ELSE PyNone),
            "prep_time", prep_time),
            "cook_time", cook_time),
            "cooking_method", first_method(combined)),
            "protein_type", first_protein(combined))

(***************************************************************************)
(* core/patterns/metadata_detectors.py: MetadataPatternDetector            *)
(***************************************************************************)
SERVINGS_KEYWORDS ==
    {"serves", "servings", "yield", "yields", "makes", "portions", "people"}

TIME_KEYWORDS ==
    {"prep", "preparation", "cook", "cooking", "bake", "baking",
     "total", "ready in", "time", "minutes", "hours"}

\* DIFFICULTY_KEYWORDS with the level of each, in the order of the dict
DIFFICULTY_KEYWORDS ==
    <<[word |-> "easy", level |-> 1], [word |-> "simple", level |-> 1],
      [word |-> "beginner", level |-> 1], [word |-> "quick", level |-> 1],
      [word |-> "intermediate", level |-> 2],
      [word |-> "moderate", level |-> 2],
      [word |-> "advanced", level |-> 3], [word |-> "difficult", level |-> 3],
      [word |-> "expert", level |-> 3], [word |-> "challenging", level |-> 3]>>

\* \b\d+\b
NUMBER_PATTERN == Cat(<<WordB, Number, WordB>>)
\* \b(?:minute|min|hour|hr)s?\b
TIME_UNIT_PATTERN ==
    Cat(<<WordB, Words(<<"minute", "min", "hour", "hr">>), Opt(Lit("s")),
          WordB>>)
\* (?:serves?|yields?|makes)\s*(?:about\s*)?(\d+(?:\s*[-to]\s*\d+)?)
SERVINGS_NUMBER_PATTERN(t) ==
    Search(Cat(<<Alt(<<Cat(<<Lit("serve"), Opt(Lit("s"))>>),
                       Cat(<<Lit("yield"), Opt(Lit("s"))>>),
                       Lit("makes")>>),
                 Star(Space),
                 Opt(Cat(<<Lit("about"), Star(Space)>>))>>),
           Cat(<<Number,
                 Opt(Cat(<<Star(Space), Cls({"-", "t", "o"}), Star(Space),
                           Number>>))>>),
           Lit(""), t)

\* _calculate_servings_confidence(text)
_calculate_servings_confidence(text) ==
    LET keyword_count == CountIn(SERVINGS_KEYWORDS, text)
    IN  FMin(FSum(<<FMul(FMin(Frac(keyword_count, 2), One), Frac(4, 10)),
                    IF SERVINGS_NUMBER_PATTERN(text).found THEN Frac(3, 10)
                    ELSE IF SERVES_PATTERN(text).found THEN Frac(2, 10)
                    ELSE Zero,
                    IF ReSearch(NUMBER_PATTERN, text) THEN Frac(2, 10) ELSE Zero,
                    IF 5 <= Len(text) /\ Len(text) <= 50
                    THEN Frac(1, 10) ELSE Zero>>),
             One)

\* _calculate_time_confidence(text)
_calculate_time_confidence(text) ==
    LET keyword_count == CountIn(TIME_KEYWORDS, text)
    IN  FMin(FSum(<<FMul(FMin(Frac(keyword_count, 2), One), Frac(4, 10)),
                    IF PREP_TIME_PATTERN(text).found
                       \/ COOK_TIME_PATTERN(text).found
                    THEN Frac(3, 10)
                    ELSE IF ReSearch(TIME_UNIT_PATTERN, text)
                    THEN Frac(15, 100)
                    ELSE Zero,
                    IF ReSearch(NUMBER_PATTERN, text)
                       /\ ReSearch(TIME_UNIT_PATTERN, text)
                    THEN Frac(2, 10) ELSE Zero,
                    IF 5 <= Len(text) /\ Len(text) <= 60
                    THEN Frac(1, 10) ELSE Zero>>),
             One)

\* _calculate_method_confidence(text)
_calculate_method_confidence(text) ==
    LET method_matches ==
            Cardinality({n \in 1..Len(COOKING_METHODS) :
                \E kw \in COOKING_METHODS[n].keywords : Contains(text, kw)})
        score ==
            FSum(<<IF method_matches > 0
                   THEN FMin(Frac(7, 10), Frac(35 * method_matches, 100))
                   ELSE Zero,
                   IF Len(text) < 100 THEN Frac(2, 10) ELSE Zero,
                   IF Len(text) > 200
                      \/ CountIn({"cup", "tablespoon", "teaspoon", "ounce"},
                                 text) > 0
                   THEN Frac(-1, 10) ELSE Zero>>)
    IN  FMax(FMin(score, One), Zero)

\* _calculate_protein_confidence(text)
_calculate_protein_confidence(text) ==
    LET protein_matches ==
            Cardinality({n \in 1..Len(PROTEIN_TYPES) :
                            Contains(text, PROTEIN_TYPES[n])})
    IN  FMin(FSum(<<IF protein_matches = 0 THEN Zero
                    ELSE IF protein_matches = 1 THEN Frac(7, 10)
                    ELSE Frac(4, 10),
                    IF Len(text) < 100 THEN Frac(2, 10) ELSE Zero,
                    IF CountIn({"with", "breast", "thigh", "ground", "whole",
                                "fillet", "steak"}, text) > 0
                    THEN Frac(1, 10) ELSE Zero>>),
             One)

\* _calculate_difficulty_confidence(text)
_calculate_difficulty_confidence(text) ==
    LET difficulty_matches ==
            Cardinality({n \in 1..Len(DIFFICULTY_KEYWORDS) :
                            Contains(text, DIFFICULTY_KEYWORDS[n].word)})
    IN  FMin(FSum(<<IF difficulty_matches > 0
                    THEN FMin(Frac(6, 10), Frac(3 * difficulty_matches, 10))
                    ELSE Zero,
                    IF Len(text) < 80 THEN Frac(3, 10) ELSE Zero,
                    IF CountIn({"level", "skill", "experience", "beginner",
                                "rating"}, text) > 0
                    THEN Frac(1, 10) ELSE Zero>>),
             One)

\* MetadataPatternDetector.calculate_confidence(text, field_type)
metadata_calculate_confidence(text, field_type) ==
    IF text = "" \/ Len(Strip(text)) < 3 THEN Zero
    ELSE CASE field_type = "servings" ->
                _calculate_servings_confidence(Lower(text))
           [] field_type = "time" -> _calculate_time_confidence(Lower(text))
           [] field_type = "method" ->
                _calculate_method_confidence(Lower(text))
           [] field_type = "protein" ->
                _calculate_protein_confidence(Lower(text))
           [] field_type = "difficulty" ->
                _calculate_difficulty_confidence(Lower(text))
           [] OTHER -> Zero

\* confidence > 0.3: the minimum a field's confidence must exceed
over_threshold(confidence) == FLt(Frac(3, 10), confidence)

\* results[key] = {'value': value, 'confidence': confidence} when the
\* confidence is over the threshold
PutOver(results, key, value, confidence) ==
    IF over_threshold(confidence)
    THEN Put(results, key, [value |-> value, confidence |-> confidence])
    ELSE results

\* the label of the first difficulty keyword that is in the text
first_difficulty(combined_text) ==
    LET hits == {n \in 1..Len(DIFFICULTY_KEYWORDS) :
                    Contains(combined_text, DIFFICULTY_KEYWORDS[n].word)}
        level == DIFFICULTY_KEYWORDS[CHOOSE n \in hits :
                                        \A m \in hits : n <= m].level
    IN  IF hits = {} THEN PyNone
        ELSE PyStr(<<"easy", "intermediate", "advanced">>[level])

\* MetadataPatternDetector.extract_metadata_with_confidence(text, title)
extract_metadata_with_confidence(text, title) ==
    LET combined_text == Lower(title \o " " \o text)
        servings_match == SERVINGS_NUMBER_PATTERN(combined_text)
        prep_match == PREP_TIME_PATTERN(combined_text)
        cook_match == COOK_TIME_PATTERN(combined_text)
        method == first_method(combined_text)
        protein == first_protein(combined_text)
        difficulty == first_difficulty(combined_text)
        r1 == IF servings_match.found
              THEN PutOver(EmptyDict, "servings", servings_match.group1,
                       _calculate_servings_confidence(servings_match.group0))
              ELSE EmptyDict
        r2 == IF prep_match.found
              THEN PutOver(r1, "prep_time", Strip(prep_match.group1),
                       _calculate_time_confidence(prep_match.before_tail))
              ELSE r1
        r3 == IF cook_match.found
              THEN PutOver(r2, "cook_time", Strip(cook_match.group1),
                       _calculate_time_confidence(cook_match.before_tail))
              ELSE r2
        r4 == IF method.kind # "none"
              THEN PutOver(r3, "cooking_method", method.s,
                       _calculate_method_confidence(combined_text))
              ELSE r3
        r5 == IF protein.kind # "none"
              THEN PutOver(r4, "protein_type", protein.s,
                       _calculate_protein_confidence(combined_text))
              ELSE r4
    IN  IF difficulty.kind # "none"
        THEN PutOver(r5, "difficulty", difficulty.s,
                 _calculate_difficulty_confidence(combined_text))
        ELSE r5

(***************************************************************************)
(* The metadata extractor applied to every time value and every text       *)
(***************************************************************************)
MaxHours == 25

\* the hour part of a time value: none, a few hours, about a day, and a half
HourParts ==
    {None, "1.5"} \cup {ToString(h) : h \in {0, 1, 2} \cup (23..MaxHours)}
MinuteParts == {None, "0", "30", "90", "1441"}
Signs == {"", "-"}
UnitSpellings ==
    {[hour |-> " hour", minute |-> " minutes"], [hour |-> "hr", minute |-> " min"]}

\* a time value as a recipe writes it: "-", "1 hour", "30 minutes"
TimeText(sign, hours, minutes, units) ==
    sign
    \o (IF hours = None THEN "" ELSE hours \o units.hour)
    \o (IF hours # None /\ minutes # None THEN " " ELSE "")
    \o (IF minutes = None THEN "" ELSE minutes \o units.minute)

TimeValues ==
    {TimeText(sign, hours, minutes, units) :
        sign \in Signs, hours \in HourParts, minutes \in MinuteParts,
        units \in UnitSpellings}
    \cup {"0", "45", "1440", "1441", "-45", "soon"}

MetadataLines ==
    {"Serves 4", "Prep time: 1 hour 30 minutes", "Prep time: 25 hours",
     "Cook time: -5 minutes", "Cook time: 45 min",
     "Bake the fish until done.", "Stir in 2 cups of stock.",
     "Pour the batter into the prepared pan and leave it on the counter for a few minutes while the oven heats up."}

MetadataTexts ==
    {Join(body, "\n") :
        body \in UNION {[1..n -> MetadataLines] : n \in 1..MaxTextLines}}

MetadataTitles == {"Cake", "Roast Beef"}

MetadataCalls ==
    {[function |-> "parse_time", raw_value |-> v] : v \in TimeValues}
    \cup {[function |-> f, text |-> t, title |-> title] :
             f \in {"extract", "extract_metadata_with_confidence"},
             t \in MetadataTexts, title \in MetadataTitles}

MetadataInit ==
    /\ fCall = None
    /\ fArgs \in MetadataCalls
    /\ fResult = Pending
    /\ ScorerIdle
    /\ ValidatorIdle
    /\ ExtractorIdle
    /\ PipelineIdle

\* MetadataExtractor.parse_time(raw_value)
ParseTime ==
    /\ fCall = None
    /\ fArgs.function = "parse_time"
    /\ fCall' = "parse_time"
    /\ fResult' = Returned(parse_time(fArgs.raw_value))
    /\ UNCHANGED <<fArgs, scorerVars, validatorVars, extractorVars,
                   pipelineVars>>

\* MetadataExtractor.extract(soup, text, title)
MetadataExtract ==
    /\ fCall = None
    /\ fArgs.function = "extract"
    /\ fCall' = "extract"
    /\ fResult' = Returned(metadata_extract(fArgs.text, fArgs.title))
    /\ UNCHANGED <<fArgs, scorerVars, validatorVars, extractorVars,
                   pipelineVars>>

\* MetadataPatternDetector.extract_metadata_with_confidence(text, title)
ExtractMetadataWithConfidence ==
    /\ fCall = None
    /\ fArgs.function = "extract_metadata_with_confidence"
    /\ fCall' = "extract_metadata_with_confidence"
    /\ fResult' = Returned(extract_metadata_with_confidence(fArgs.text, fArgs.title))
    /\ UNCHANGED <<fArgs, scorerVars, validatorVars, extractorVars,
                   pipelineVars>>

MetadataNext == ParseTime \/ MetadataExtract \/ ExtractMetadataWithConfidence
SpecMetadata == MetadataInit /\ [][MetadataNext]_vars

(***************************************************************************)
(* Claims about the metadata extractor                                     *)
(***************************************************************************)
\* the confidence MetadataPatternDetector gives the field of that name in
\* the text: that of the matched text for servings and the times, that of
\* the combined title and text for the method and the protein
FieldConfidence(field, text, title) ==
    LET combined == Lower(title \o " " \o text)
    IN  CASE field = "serves" ->
               _calculate_servings_confidence(SERVES_PATTERN(Lower(text)).group0)
          [] field = "prep_time" ->
               _calculate_time_confidence(
                   PREP_TIME_PATTERN(Lower(text)).before_tail)
          [] field = "cook_time" ->
               _calculate_time_confidence(
                   COOK_TIME_PATTERN(Lower(text)).before_tail)
          [] field = "cooking_method" -> _calculate_method_confidence(combined)
          [] field = "protein_type" -> _calculate_protein_confidence(combined)

\* C16: every field in the result of MetadataExtractor.extract has a
\* confidence above 0.3; a field that matches with a confidence of 0.3 or
\* less is absent from the result.
C16_FieldKeptOnlyAboveThreshold ==
    Calculated("extract") =>
        \A field \in DOMAIN fResult.value :
            FLt(Frac(3, 10),
                FieldConfidence(field, fArgs.text, fArgs.title))

\* the number of minutes a time value of the given parts stands for
MinutesOf(hours, minutes) ==
    (IF hours = None THEN 0 ELSE HoursToMinutes(hours))
    + (IF minutes = None THEN 0 ELSE ParseInt(minutes))

\* the strings of the whole numbers of minutes of one day
DayMinutes == {ToString(n) : n \in 1..1440}

\* C17: parse_time returns None or a whole number of minutes from 1 to 1440:
\* the hours and the minutes of a value are added, a value with a negative
\* number gives None, a total over 1440 gives None; and the prep_time and
\* cook_time that MetadataExtractor.extract stores are such numbers.
C17_ParseTimeWithinDay ==
    /\ Calculated("parse_time") =>
          /\ fResult.value.kind = "int" => fResult.value.n \in 1..1440
          /\ \A sign \in Signs, hours \in HourParts, minutes \in MinuteParts,
                units \in UnitSpellings :
                fArgs.raw_value = TimeText(sign, hours, minutes, units) =>
                    fResult.value =
                        IF sign = "" /\ MinutesOf(hours, minutes) \in 1..1440
                        THEN PyInt(MinutesOf(hours, minutes))
                        ELSE PyNone
    /\ Calculated("extract") =>
          \A field \in DOMAIN fResult.value \cap {"prep_time", "cook_time"} :
              fResult.value[field] \in DayMinutes

\* parse_time has added the hour part and the minute part of a value
C17_Witness ==
    /\ Calculated("parse_time")
    /\ fArgs.raw_value = "1 hour 30 minutes"
    /\ fResult.value = PyInt(90)

(***************************************************************************)
(* core/patterns/ingredient_detectors.py: IngredientPatternDetector        *)
(***************************************************************************)
MEASUREMENT_UNITS ==
    <<"cup", "cups", "c", "tablespoon", "tablespoons", "tbsp", "tbs", "t",
      "teaspoon", "teaspoons", "tsp", "ts", "fluid ounce", "fluid ounces",
      "fl oz", "pint", "pints", "pt", "quart", "quarts", "qt", "gallon",
      "gallons", "gal", "milliliter", "milliliters", "ml", "liter", "liters",
      "l", "ounce", "ounces", "oz", "pound", "pounds", "lb", "lbs",
      "gram", "grams", "g", "kilogram", "kilograms", "kg",
      "pinch", "dash", "drop", "drops", "smidgen", "hint",
      "clove", "cloves", "piece", "pieces", "slice", "slices",
      "can", "cans", "package", "packages", "pkg", "box", "boxes",
      "jar", "jars", "bunch", "bunches", "head", "heads",
      "stalk", "stalks", "sprig", "sprigs", "leaf", "leaves",
      "strip", "strips", "stick", "sticks">>

\* IngredientPatternDetector.MEASUREMENT_PATTERN:
\* \b\d+[\s/\d]*\s*(?:unit|unit|...)\b
DetectorMeasurementPattern ==
    Cat(<<WordB, Number, Star(Cls(Spaces \cup {"/"} \cup Digits)),
          Star(Space), Words(MEASUREMENT_UNITS), WordB>>)

\* [vulgar fractions]|(?:\d+/)?\d+/\d+
FRACTION_PATTERN ==
    Alt(<<Cls(Fractions),
          Cat(<<Opt(Cat(<<Number, Lit("/")>>)), Number, Lit("/"), Number>>)>>)

\* the score of a ratio of lines with a measurement
measurement_steps(ratio) ==
    IF FLe(Frac(7, 10), ratio) THEN One
    ELSE IF FLe(Frac(5, 10), ratio) THEN Frac(85, 100)
    ELSE IF FLe(Frac(3, 10), ratio) THEN Frac(65, 100)
    ELSE IF FLe(Frac(15, 100), ratio) THEN Frac(40, 100)
    ELSE FMul(ratio, Whole(2))

\* _calculate_measurement_score(lines, text_lower)
_calculate_measurement_score(lines) ==
    LET with_measurement ==
            Cardinality({n \in 1..Len(lines) :
                \/ ReSearch(DetectorMeasurementPattern, Lower(lines[n]))
                \/ ReSearch(FRACTION_PATTERN, lines[n])})
    IN  IF Len(lines) = 0 THEN Zero
        ELSE measurement_steps(Frac(with_measurement, Len(lines)))

(***************************************************************************)
(* The measurement score of a text and of the text with more appended      *)
(***************************************************************************)
MaxAppended == 2

OriginalLines == {"2 cups flour", "salt to taste", "a pinch of love"}
AppendedLines == {"1 tsp salt", "butter", "and 3 large eggs"}

MeasurementCalls ==
    {[text |-> Join(body, "\n"), appended |-> glue \o Join(more, "\n")] :
        body \in UNION {[1..n -> OriginalLines] : n \in 1..2},
        glue \in {" ", "\n"},
        more \in UNION {[1..n -> AppendedLines] : n \in 1..MaxAppended}}

MeasurementInit ==
    /\ fCall = None
    /\ fArgs \in MeasurementCalls
    /\ fResult = Pending
    /\ ScorerIdle
    /\ ValidatorIdle
    /\ ExtractorIdle
    /\ PipelineIdle

\* _calculate_measurement_score on the lines of the text, and on the lines
\* of the text with the content appended
CalculateMeasurementScore ==
    /\ fCall = None
    /\ fCall' = "_calculate_measurement_score"
    /\ fResult' =
          Returned([original |->
                        _calculate_measurement_score(StrippedLines(fArgs.text)),
                    extended |->
                        _calculate_measurement_score(
                            StrippedLines(fArgs.text \o fArgs.appended))])
    /\ UNCHANGED <<fArgs, scorerVars, validatorVars, extractorVars,
                   pipelineVars>>

MeasurementNext == CalculateMeasurementScore
SpecMeasurement == MeasurementInit /\ [][MeasurementNext]_vars

\* len(MEASUREMENT_PATTERN.findall(text))
MeasurementMatches(text) == FindallCount(DetectorMeasurementPattern, Lower(text))

\* C18: when the appended content strictly increases the number of matches
\* of the measurement pattern, _calculate_measurement_score of the extended
\* text is not lower than that of the original text.
C18_MeasurementScoreMonotone ==
    (/\ fCall = "_calculate_measurement_score"
     /\ fResult.status = "returned"
     /\ MeasurementMatches(fArgs.text \o fArgs.appended)
            > MeasurementMatches(fArgs.text)) =>
        FLe(fResult.value.original, fResult.value.extended)

(***************************************************************************)
(* core/patterns/ingredient_detectors.py: IngredientPatternDetector        *)
(***************************************************************************)
DESCRIPTORS ==
    {"large", "medium", "small", "jumbo", "extra-large", "xl",
     "fresh", "frozen", "dried", "canned", "fresh-squeezed",
     "room temperature", "cold", "warm", "hot",
     "chopped", "diced", "minced", "sliced", "grated", "shredded",
     "peeled", "crushed", "ground", "whole", "halved", "quartered",
     "cubed", "julienned", "thinly sliced", "finely chopped",
     "roughly chopped", "coarsely chopped",
     "ripe", "unripe", "tender", "crisp", "firm", "soft",
     "organic", "kosher", "sea", "iodized", "extra-virgin",
     "unsalted", "salted", "sweetened", "unsweetened"}

INGREDIENT_NOUNS ==
    {"chicken", "beef", "pork", "fish", "shrimp", "salmon", "tuna",
     "turkey", "lamb", "bacon", "sausage", "ham", "steak", "ribs",
     "brisket", "tenderloin", "thighs", "breast", "wings",
     "milk", "cream", "butter", "cheese", "yogurt", "sour cream",
     "half-and-half", "buttermilk", "parmesan", "cheddar", "mozzarella",
     "onion", "garlic", "tomato", "potato", "carrot", "celery",
     "pepper", "bell pepper", "jalapeño", "chili", "cucumber",
     "lettuce", "spinach", "kale", "broccoli", "cauliflower",
     "mushroom", "zucchini", "eggplant", "corn", "peas",
     "salt", "paprika", "cumin", "oregano", "basil",
     "thyme", "rosemary", "parsley", "cilantro", "mint", "dill",
     "cinnamon", "nutmeg", "cloves", "ginger", "turmeric",
     "flour", "sugar", "oil", "vinegar", "soy sauce", "worcestershire",
     "ketchup", "mustard", "mayonnaise", "honey", "molasses",
     "stock", "broth", "wine", "beer", "water",
     "egg", "eggs", "yeast", "baking powder", "baking soda",
     "vanilla", "vanilla extract", "chocolate", "cocoa",
     "rice", "pasta", "noodles", "bread", "breadcrumbs",
     "cornstarch", "oats", "quinoa", "couscous",
     "lemon", "lime", "orange", "apple", "banana", "berries",
     "strawberry", "blueberry", "raspberry", "mango", "pineapple"}

\* LIST_MARKERS, with the markers of its character class that the model's
\* texts can contain
LIST_MARKERS ==
    Alt(<<Cat(<<Bol, Cls(Spaces \cup {"-", "*", "·"}), Star(Cls(Spaces))>>),
          Cat(<<Plus(Cls(Digits)), Lit("."), Star(Cls(Spaces))>>)>>)

\* the cooking_verbs of _calculate_verb_penalty
PenaltyCookingVerbs ==
    <<"preheat", "heat", "cook", "bake", "roast", "fry", "grill",
      "mix", "stir", "combine", "whisk", "beat", "fold",
      "bring", "remove", "transfer", "pour", "serve">>

\* text.count(sub): the occurrences of sub, left to right, without overlap
RECURSIVE CountFrom(_, _, _, _)
CountFrom(at, width, k, free) ==
    IF k > Len(at) THEN 0
    ELSE IF at[k] >= free
    THEN 1 + CountFrom(at, width, k + 1, at[k] + width)
    ELSE CountFrom(at, width, k + 1, free)
Count(text, sub) ==
    LET at == SortedSeq({i \in 1..(Len(text) - Len(sub) + 1) :
                            SubSeq(text, i, i + Len(sub) - 1) = sub})
    IN  CountFrom(at, Len(sub), 1, 1)

\* sum(f(x) for x in xs) over integers
RECURSIVE Sum(_)
Sum(values) ==
    IF Len(values) = 0 THEN 0 ELSE values[1] + Sum(Tail(values))

\* IngredientPatternDetector._calculate_noun_density(text)
_calculate_noun_density(text) ==
    LET noun_count == CountIn(INGREDIENT_NOUNS, text)
        density == Frac(noun_count * 100, Len(text))
    IN  IF text = "" THEN Zero
        ELSE IF FLe(Whole(3), density) THEN One
        ELSE IF FLe(Whole(2), density) THEN Frac(85, 100)
        ELSE IF FLe(Whole(1), density) THEN Frac(65, 100)
        ELSE IF FLe(Frac(1, 2), density) THEN Frac(45, 100)
        ELSE density

\* IngredientPatternDetector._calculate_descriptor_score(text)
_calculate_descriptor_score(text) ==
    LET descriptor_count == CountIn(DESCRIPTORS, text)
        density == Frac(descriptor_count * 100, Len(text))
    IN  IF text = "" THEN Zero
        ELSE IF FLe(Whole(2), density) THEN One
        ELSE IF FLe(Whole(1), density) THEN Frac(75, 100)
        ELSE IF FLe(Frac(1, 2), density) THEN Frac(1, 2)
        ELSE FMul(density, Frac(1, 2))

\* IngredientPatternDetector._check_list_structure(lines)
_check_list_structure(lines) ==
    LET marker_count ==
            Cardinality({n \in 1..Len(lines) : ReMatch(LIST_MARKERS, lines[n])})
        ratio == Frac(marker_count, Len(lines))
        avg_length == Frac(TotalLen(lines), Len(lines))
        length_variance ==
            FDiv(FSum([n \in 1..Len(lines) |->
                          FAbs(FSub(Whole(Len(lines[n])), avg_length))]),
                 Whole(Len(lines)))
        consistency == FSub(One, FMin(FDiv(length_variance, Whole(50)), One))
        list_score == FAdd(FMul(ratio, Frac(6, 10)),
                           FMul(consistency, Frac(4, 10)))
    IN  IF Len(lines) < 3 THEN Zero ELSE FMin(list_score, One)

\* IngredientPatternDetector._check_line_length(lines)
_check_line_length(lines) ==
    LET ideal_range ==
            Cardinality({n \in 1..Len(lines) :
                            20 <= Len(lines[n]) /\ Len(lines[n]) <= 100})
        ratio == Frac(ideal_range, Len(lines))
        avg_length == Frac(TotalLen(lines), Len(lines))
        avg_score ==
            IF FLe(Whole(40), avg_length) /\ FLe(avg_length, Whole(70))
            THEN One
            ELSE IF FLe(Whole(30), avg_length) /\ FLe(avg_length, Whole(80))
            THEN Frac(75, 100)
            ELSE Frac(1, 2)
    IN  IF Len(lines) = 0 THEN Zero
        ELSE FAdd(FMul(ratio, Frac(6, 10)), FMul(avg_score, Frac(4, 10)))

\* IngredientPatternDetector._calculate_verb_penalty(text)
_calculate_verb_penalty(text) ==
    LET verb_count ==
            Sum([n \in 1..Len(PenaltyCookingVerbs) |->
                    Count(text, " " \o PenaltyCookingVerbs[n] \o " ")])
    IN  IF verb_count = 0 THEN One
        ELSE IF verb_count = 1 THEN Frac(75, 100)
        ELSE IF verb_count = 2 THEN Frac(1, 2)
        ELSE IF verb_count = 3 THEN Frac(25, 100)
        ELSE Zero

\* the six component scores of IngredientPatternDetector.calculate_confidence
ingredient_components(text) ==
    LET lines == StrippedLines(text)
    IN  <<_calculate_measurement_score(lines),
          _calculate_noun_density(Lower(text)),
          _calculate_descriptor_score(Lower(text)),
          _check_list_structure(lines),
          _check_line_length(lines),
          _calculate_verb_penalty(Lower(text))>>

ingredient_weights ==
    <<Frac(30, 100), Frac(25, 100), Frac(15, 100), Frac(15, 100),
      Frac(10, 100), Frac(5, 100)>>

\* sum of each component times its weight
Weighted(components, weights) ==
    FSum([n \in 1..Len(components) |-> FMul(components[n], weights[n])])

\* calculate_confidence without its test of the length of the text
ingredient_calculate_confidence_unguarded(text) ==
    IF Len(StrippedLines(text)) = 0 THEN Zero
    ELSE Clamp(Weighted(ingredient_components(text), ingredient_weights))

\* IngredientPatternDetector.calculate_confidence(text)
ingredient_calculate_confidence(text) ==
    IF text = "" \/ Len(Strip(text)) < 10 THEN Zero
    ELSE IF Len(StrippedLines(text)) = 0 THEN Zero
    ELSE Clamp(Weighted(ingredient_components(text), ingredient_weights))

(***************************************************************************)
(* core/patterns/instruction_detectors.py: InstructionPatternDetector      *)
(***************************************************************************)
TEMPORAL_MARKERS ==
    {"until", "after", "before", "while", "during", "when", "then",
     "once", "as soon as", "immediately", "gradually", "slowly"}

SEQUENTIAL_MARKERS ==
    {"first", "second", "third", "next", "then", "finally", "lastly",
     "meanwhile", "at the same time", "simultaneously"}

IMPERATIVE_STARTERS ==
    {"preheat", "heat", "place", "add", "mix", "stir", "combine",
     "whisk", "beat", "fold", "cook", "bake", "roast", "fry", "grill",
     "bring", "remove", "transfer", "pour", "season", "cover", "simmer",
     "boil", "melt", "spread", "drain", "toss", "sauté", "chop", "slice"}

\* InstructionPatternDetector._calculate_verb_density(text)
_calculate_verb_density(text) ==
    LET words == SplitWords(text)
        verb_count == FindallCount(COOKING_VERBS_PATTERN, text)
        density == Frac(verb_count * 100, Len(words))
    IN  IF text = "" \/ Len(words) = 0 THEN Zero
        ELSE IF FLe(Whole(3), density) /\ FLe(density, Whole(10)) THEN One
        ELSE IF FLe(Whole(1), density) /\ FLt(density, Whole(3))
        THEN FDiv(density, Whole(3))
        ELSE IF FLt(Whole(10), density) /\ FLe(density, Whole(15))
        THEN FSub(One, FDiv(FSub(density, Whole(10)), Whole(10)))
        ELSE Zero

\* InstructionPatternDetector._calculate_marker_score(text)
_calculate_marker_score(text) ==
    LET marker_count == CountIn(TEMPORAL_MARKERS \cup SEQUENTIAL_MARKERS, text)
    IN  IF marker_count = 0 THEN Zero
        ELSE IF marker_count >= 3 THEN One
        ELSE Frac(marker_count, 3)

\* InstructionPatternDetector._detect_imperative_sentences(text)
_detect_imperative_sentences(text) ==
    LET sentences == SplitOnChars(text, {".", "!", "?"})
        imperative_count ==
            Cardinality({n \in 1..Len(sentences) :
                RStripChars(SplitWords(sentences[n])[1], {",", ".", ":", ";"})
                    \in IMPERATIVE_STARTERS})
    IN  IF Len(sentences) = 0 THEN Zero
        ELSE Frac(imperative_count, Len(sentences))

\* InstructionPatternDetector._check_paragraph_length(text)
_check_paragraph_length(text) ==
    LET text_length == Len(text)
    IN  IF 100 <= text_length /\ text_length <= 500 THEN One
        ELSE IF 50 <= text_length /\ text_length < 100
        THEN Frac(text_length - 50, 50)
        ELSE IF 500 < text_length /\ text_length <= 1000
        THEN FSub(One, Frac(text_length - 500, 500))
        ELSE Zero

\* InstructionPatternDetector._calculate_measurement_penalty(text)
_calculate_measurement_penalty(text) ==
    LET lines == StrippedLines(text)
        measurement_lines ==
            Cardinality({n \in 1..Len(lines) :
                            ReSearch(MEASUREMENT_PATTERN, Lower(lines[n]))})
        measurement_ratio == Frac(measurement_lines, Len(lines))
    IN  IF Len(lines) = 0 THEN One
        ELSE IF FLt(measurement_ratio, Frac(2, 10)) THEN One
        ELSE IF FLt(Frac(5, 10), measurement_ratio) THEN Zero
        ELSE FSub(One, FDiv(FSub(measurement_ratio, Frac(2, 10)),
                            Frac(3, 10)))

\* the five component scores of InstructionPatternDetector.calculate_confidence
instruction_components(text) ==
    <<_calculate_verb_density(Lower(text)),
      _calculate_marker_score(Lower(text)),
      _detect_imperative_sentences(Lower(text)),
      _check_paragraph_length(text),
      _calculate_measurement_penalty(text)>>

instruction_weights ==
    <<Frac(30, 100), Frac(25, 100), Frac(20, 100), Frac(15, 100),
      Frac(10, 100)>>

\* InstructionPatternDetector.calculate_confidence(text)
instruction_calculate_confidence(text) ==
    IF text = "" \/ Len(Strip(text)) < 10 THEN Zero
    ELSE Clamp(Weighted(instruction_components(text), instruction_weights))

(***************************************************************************)
(* core/patterns/analyzers.py: LinguisticAnalyzer                          *)
(***************************************************************************)
\* LinguisticAnalyzer.INSTRUCTION_VERBS
LinguisticAnalyzerVerbs ==
    {"add", "mix", "stir", "cook", "bake", "boil", "simmer", "fry", "sauté",
     "chop", "dice", "slice", "mince", "blend", "whisk", "beat", "fold",
     "season", "taste", "serve", "garnish", "preheat", "combine", "pour",
     "heat", "brown", "reduce", "drain", "rinse", "cover", "remove"}

\* LinguisticAnalyzer.INGREDIENT_DESCRIPTORS
LinguisticAnalyzerDescriptors ==
    {"fresh", "dried", "chopped", "diced", "sliced", "minced", "grated",
     "ground", "whole", "crushed", "raw", "cooked", "frozen", "canned",
     "large", "small", "medium", "finely", "coarsely", "thinly"}

\* ^[\d•\-*]\s*\w+
ListLinePattern ==
    Cat(<<Bol, Cls(Digits \cup {"-", "*"}), Star(Cls(Spaces)),
          Plus(Cls(WordChars))>>)

\* the number of lines for which the test holds, over the number of lines
LineRatio(lines, Test(_)) ==
    Frac(Cardinality({n \in 1..Len(lines) : Test(lines[n])}), Len(lines))

\* the score of calculate_linguistic_score before 0.5 is added and the sum
\* is clamped
linguistic_score_sum(lines) ==
    LET instruction_ratio ==
            LineRatio(lines, LAMBDA line :
                \E verb \in LinguisticAnalyzerVerbs : Contains(line, verb))
        descriptor_ratio ==
            LineRatio(lines, LAMBDA line :
                \E desc \in LinguisticAnalyzerDescriptors : Contains(line, desc))
        avg_line_length == Frac(TotalLen(lines), Len(lines))
        list_ratio ==
            LineRatio(lines, LAMBDA line : ReMatch(ListLinePattern, line))
    IN  FSum(<<IF FLt(Frac(1, 2), instruction_ratio)
               THEN Frac(-3, 10) ELSE Zero,
               FMul(descriptor_ratio, Frac(4, 10)),
               IF FLe(Whole(20), avg_line_length)
                    /\ FLe(avg_line_length, Whole(80))
               THEN Frac(3, 10)
               ELSE IF FLt(Whole(150), avg_line_length)
               THEN Frac(-2, 10) ELSE Zero,
               FMul(list_ratio, Frac(3, 10))>>)

\* LinguisticAnalyzer.calculate_linguistic_score(text)
calculate_linguistic_score(text) ==
    IF text = "" \/ Len(Strip(text)) < 10 THEN Zero
    ELSE IF Len(StrippedLines(text)) = 0 THEN Zero
    ELSE Clamp(FAdd(linguistic_score_sum(StrippedLines(text)), Frac(1, 2)))

(***************************************************************************)
(* core/patterns/analyzers.py: MetadataLinguisticAnalyzer                  *)
(***************************************************************************)
METADATA_KEYWORDS ==
    {"serves", "servings", "yield", "yields", "makes", "portions",
     "prep", "preparation", "cook", "cooking", "bake", "baking",
     "time", "minutes", "hours", "total", "ready",
     "difficulty", "easy", "medium", "hard", "skill", "level"}

NARRATIVE_WORDS ==
    {"the", "then", "when", "after", "before", "until", "while",
     "you", "your", "will", "should", "can", "may", "this", "that"}

\* NUMBER_INDICATORS["range_pattern"]: \d+\s*[-to]\s*\d+
range_pattern ==
    Cat(<<Plus(Cls(Digits)), Star(Cls(Spaces)), Cls({"-", "t", "o"}),
          Star(Cls(Spaces)), Plus(Cls(Digits))>>)

Punctuation == {",", ".", ";", ":", "!", "?"}

\* the number of words of the text that, without trailing punctuation, are
\* in the vocabulary
WordsIn(words, strip, vocabulary) ==
    Cardinality({n \in 1..Len(words) :
                    RStripChars(words[n], strip) \in vocabulary})

\* MetadataLinguisticAnalyzer._calculate_keyword_presence(text)
_calculate_keyword_presence(text) ==
    LET words == SplitWords(text)
        keyword_frequency ==
            Frac(WordsIn(words, Punctuation, METADATA_KEYWORDS) * 10,
                 Len(words))
    IN  IF Len(words) = 0 THEN Zero
        ELSE IF FLe(One, keyword_frequency) /\ FLe(keyword_frequency, Whole(3))
        THEN One
        ELSE IF FLt(keyword_frequency, One) THEN keyword_frequency
        ELSE IF FLt(Whole(3), keyword_frequency)
                    /\ FLe(keyword_frequency, Whole(5))
        THEN FSub(One, FDiv(FSub(keyword_frequency, Whole(3)), Whole(4)))
        ELSE Zero

\* MetadataLinguisticAnalyzer._calculate_numeric_score(text)
_calculate_numeric_score(text) ==
    LET digit_count == Cardinality({i \in 1..Len(text) : Char(text, i) \in Digits})
    IN  FMin(FSum(<<IF 1 <= digit_count /\ digit_count <= 8 THEN Frac(4, 10)
                    ELSE IF digit_count > 8 THEN Frac(2, 10) ELSE Zero,
                    IF ReSearch(TIME_UNIT_PATTERN, text)
                    THEN Frac(3, 10) ELSE Zero,
                    IF ReSearch(range_pattern, text)
                    THEN Frac(3, 10) ELSE Zero>>),
             One)

\* MetadataLinguisticAnalyzer._check_conciseness(text)
_check_conciseness(text) ==
    LET text_length == Len(text)
    IN  IF 5 <= text_length /\ text_length <= 100 THEN One
        ELSE IF text_length < 5 THEN Frac(text_length, 5)
        ELSE IF 100 < text_length /\ text_length <= 200
        THEN FSub(One, Frac(text_length - 100, 100))
        ELSE Zero

\* MetadataLinguisticAnalyzer._check_narrative_absence(text)
_check_narrative_absence(text) ==
    LET words == SplitWords(text)
        narrative_ratio ==
            Frac(WordsIn(words, Punctuation, NARRATIVE_WORDS), Len(words))
    IN  IF Len(words) = 0 THEN One
        ELSE IF FLt(narrative_ratio, Frac(1, 10)) THEN One
        ELSE IF FLt(narrative_ratio, Frac(3, 10))
        THEN FSub(One, FDiv(FSub(narrative_ratio, Frac(1, 10)), Frac(2, 10)))
        ELSE Zero

\* the four component scores of calculate_metadata_score
metadata_components(text) ==
    <<_calculate_keyword_presence(Lower(text)),
      _calculate_numeric_score(Lower(text)),
      _check_conciseness(text),
      _check_narrative_absence(Lower(text))>>

metadata_weights == <<Frac(35, 100), Frac(30, 100), Frac(20, 100), Frac(15, 100)>>

\* MetadataLinguisticAnalyzer.calculate_metadata_score(text)
calculate_metadata_score(text) ==
    IF text = "" \/ Len(Strip(text)) < 3 THEN Zero
    ELSE Clamp(Weighted(metadata_components(text), metadata_weights))

(***************************************************************************)
(* core/patterns/analyzers.py: IngredientLinguisticAnalyzer                *)
(***************************************************************************)
\* IngredientLinguisticAnalyzer.INGREDIENT_DESCRIPTORS
AnalyzerDescriptors ==
    {"fresh", "dried", "frozen", "canned", "fresh-squeezed",
     "chopped", "diced", "minced", "sliced", "grated", "shredded",
     "peeled", "crushed", "ground", "whole", "halved", "quartered",
     "large", "medium", "small", "jumbo", "extra-large",
     "ripe", "unripe", "tender", "crisp", "firm", "soft",
     "organic", "kosher", "sea", "extra-virgin",
     "unsalted", "salted", "sweetened", "unsweetened"}

\* IngredientLinguisticAnalyzer.INGREDIENT_NOUNS
AnalyzerNouns ==
    {"salt", "pepper", "oil", "butter", "flour", "sugar", "egg", "eggs",
     "milk", "water", "cream", "cheese", "onion", "garlic", "chicken",
     "beef", "pork", "fish", "tomato", "potato", "carrot", "lemon", "lime"}

MEASUREMENT_WORDS ==
    {"cup", "cups", "tablespoon", "tbsp", "teaspoon", "tsp",
     "ounce", "oz", "pound", "lb", "gram", "g", "kilogram", "kg",
     "pinch", "dash", "clove", "piece"}

\* IngredientLinguisticAnalyzer.COOKING_VERBS
AnalyzerCookingVerbs ==
    {"preheat", "heat", "cook", "bake", "roast", "fry", "grill",
     "mix", "stir", "combine", "whisk", "beat", "fold",
     "bring", "remove", "transfer", "pour", "serve"}

\* LIST_MARKER_PATTERN, with the markers the model's texts can contain
LIST_MARKER_PATTERN ==
    Alt(<<Cat(<<Bol, Cls(Spaces \cup {"-", "*", "·"}), Star(Cls(Spaces))>>),
          Cat(<<Plus(Cls(Digits)), Lit("."), Star(Cls(Spaces))>>)>>)

\* IngredientLinguisticAnalyzer._calculate_descriptor_score(text)
analyzer_descriptor_score(text) ==
    LET words == SplitWords(text)
        descriptor_frequency ==
            Frac(WordsIn(words, Punctuation, AnalyzerDescriptors) * 20,
                 Len(words))
    IN  IF Len(words) = 0 THEN Zero
        ELSE IF FLe(One, descriptor_frequency)
                    /\ FLe(descriptor_frequency, Whole(4))
        THEN One
        ELSE IF FLt(descriptor_frequency, One) THEN descriptor_frequency
        ELSE IF FLt(Whole(4), descriptor_frequency)
                    /\ FLe(descriptor_frequency, Whole(6))
        THEN FSub(One, FDiv(FSub(descriptor_frequency, Whole(4)), Whole(4)))
        ELSE Zero

\* IngredientLinguisticAnalyzer._calculate_measurement_presence(text)
_calculate_measurement_presence(text) ==
    LET words == SplitWords(text)
        measurement_frequency ==
            Frac(WordsIn(words, Punctuation \cup {"s"}, MEASUREMENT_WORDS) * 10,
                 Len(words))
    IN  IF Len(words) = 0 THEN Zero
        ELSE IF FLe(Frac(1, 2), measurement_frequency)
                    /\ FLe(measurement_frequency, Whole(3))
        THEN One
        ELSE IF FLt(measurement_frequency, Frac(1, 2))
        THEN FDiv(measurement_frequency, Frac(1, 2))
        ELSE IF FLt(Whole(3), measurement_frequency)
                    /\ FLe(measurement_frequency, Whole(5))
        THEN FSub(One, FDiv(FSub(measurement_frequency, Whole(3)), Whole(4)))
        ELSE Zero

\* IngredientLinguisticAnalyzer._analyze_line_structure(lines)
_analyze_line_structure(lines) ==
    LET length_ratio ==
            LineRatio(lines, LAMBDA line : 20 <= Len(line) /\ Len(line) <= 100)
        marker_ratio ==
            LineRatio(lines, LAMBDA line : ReMatch(LIST_MARKER_PATTERN, line))
    IN  IF Len(lines) = 0 THEN Zero
        ELSE FMin(FSum(<<FMul(length_ratio, Frac(4, 10)),
                         FMul(marker_ratio, Frac(3, 10)),
                         IF Len(lines) >= 3 THEN Frac(3, 10)
                         ELSE IF Len(lines) = 2 THEN Frac(15, 100)
                         ELSE Zero>>),
                  One)

\* IngredientLinguisticAnalyzer._calculate_noun_presence(text)
_calculate_noun_presence(text) ==
    LET density == Frac(CountIn(AnalyzerNouns, text) * 100, Len(text))
    IN  IF Len(SplitWords(text)) = 0 THEN Zero
        ELSE IF FLe(Whole(2), density) THEN One
        ELSE IF FLe(Whole(1), density) THEN Frac(75, 100)
        ELSE IF FLe(Frac(1, 2), density) THEN Frac(1, 2)
        ELSE density

\* IngredientLinguisticAnalyzer._check_verb_absence(text)
_check_verb_absence(text) ==
    LET verb_count ==
            Cardinality({verb \in AnalyzerCookingVerbs :
                Contains(" " \o text \o " ", " " \o verb \o " ")})
    IN  IF verb_count = 0 THEN One
        ELSE IF verb_count = 1 THEN Frac(6, 10)
        ELSE IF verb_count = 2 THEN Frac(3, 10)
        ELSE Zero

\* the five component scores of calculate_ingredient_score
ingredient_score_components(text) ==
    <<analyzer_descriptor_score(Lower(text)),
      _calculate_measurement_presence(Lower(text)),
      _analyze_line_structure(StrippedLines(text)),
      _calculate_noun_presence(Lower(text)),
      _check_verb_absence(Lower(text))>>

ingredient_score_weights ==
    <<Frac(30, 100), Frac(25, 100), Frac(20, 100), Frac(15, 100),
      Frac(10, 100)>>

\* IngredientLinguisticAnalyzer.calculate_ingredient_score(text)
calculate_ingredient_score(text) ==
    IF text = "" \/ Len(Strip(text)) < 10 THEN Zero
    ELSE IF Len(StrippedLines(text)) = 0 THEN Zero
    ELSE Clamp(Weighted(ingredient_score_components(text),
                        ingredient_score_weights))

(***************************************************************************)
(* Every confidence and score function, called on every text               *)
(***************************************************************************)
\* the field types calculate_confidence knows, and one it does not
FieldTypes ==
    {"servings", "time", "method", "protein", "difficulty", "cuisine"}

TextFunctions ==
    {"ingredient_calculate_confidence", "instruction_calculate_confidence",
     "calculate_linguistic_score", "calculate_instruction_score",
     "calculate_metadata_score", "calculate_ingredient_score"}

ScoreFunctions == TextFunctions \cup {"metadata_calculate_confidence"}

ScoreCalls ==
    {[function |-> f, text |-> t, field_type |-> ""] :
        f \in TextFunctions, t \in ScoredTexts}
    \cup {[function |-> "metadata_calculate_confidence", text |-> t,
           field_type |-> field] : t \in ScoredTexts, field \in FieldTypes}

ConfidenceInit ==
    /\ fCall = None
    /\ fArgs \in ScoreCalls
    /\ fResult = Pending
    /\ ScorerIdle
    /\ ValidatorIdle
    /\ ExtractorIdle
    /\ PipelineIdle

\* IngredientPatternDetector.calculate_confidence(text)
IngredientCalculateConfidence ==
    /\ fCall = None
    /\ fArgs.function = "ingredient_calculate_confidence"
    /\ fCall' = "ingredient_calculate_confidence"
    /\ fResult' = Returned(ingredient_calculate_confidence(fArgs.text))
    /\ UNCHANGED <<fArgs, scorerVars, validatorVars, extractorVars,
                   pipelineVars>>

\* InstructionPatternDetector.calculate_confidence(text)
InstructionCalculateConfidence ==
    /\ fCall = None
    /\ fArgs.function = "instruction_calculate_confidence"
    /\ fCall' = "instruction_calculate_confidence"
    /\ fResult' = Returned(instruction_calculate_confidence(fArgs.text))
    /\ UNCHANGED <<fArgs, scorerVars, validatorVars, extractorVars,
                   pipelineVars>>

\* MetadataPatternDetector.calculate_confidence(text, field_type)
MetadataCalculateConfidence ==
    /\ fCall = None
    /\ fArgs.function = "metadata_calculate_confidence"
    /\ fCall' = "metadata_calculate_confidence"
    /\ fResult' = Returned(metadata_calculate_confidence(fArgs.text, fArgs.field_type))
    /\ UNCHANGED <<fArgs, scorerVars, validatorVars, extractorVars,
                   pipelineVars>>

\* LinguisticAnalyzer.calculate_linguistic_score(text)
CalculateLinguisticScore ==
    /\ fCall = None
    /\ fArgs.function = "calculate_linguistic_score"
    /\ fCall' = "calculate_linguistic_score"
    /\ fResult' = Returned(calculate_linguistic_score(fArgs.text))
    /\ UNCHANGED <<fArgs, scorerVars, validatorVars, extractorVars,
                   pipelineVars>>

\* InstructionLinguisticAnalyzer.calculate_instruction_score(text)
CalculateInstructionScore ==
    /\ fCall = None
    /\ fArgs.function = "calculate_instruction_score"
    /\ fCall' = "calculate_instruction_score"
    /\ fResult' = Returned(calculate_instruction_score(fArgs.text))
    /\ UNCHANGED <<fArgs, scorerVars, validatorVars, extractorVars,
                   pipelineVars>>

\* MetadataLinguisticAnalyzer.calculate_metadata_score(text)
CalculateMetadataScore ==
    /\ fCall = None
    /\ fArgs.function = "calculate_metadata_score"
    /\ fCall' = "calculate_metadata_score"
    /\ fResult' = Returned(calculate_metadata_score(fArgs.text))
    /\ UNCHANGED <<fArgs, scorerVars, validatorVars, extractorVars,
                   pipelineVars>>

\* IngredientLinguisticAnalyzer.calculate_ingredient_score(text)
CalculateIngredientScore ==
    /\ fCall = None
    /\ fArgs.function = "calculate_ingredient_score"
    /\ fCall' = "calculate_ingredient_score"
    /\ fResult' = Returned(calculate_ingredient_score(fArgs.text))
    /\ UNCHANGED <<fArgs, scorerVars, validatorVars, extractorVars,
                   pipelineVars>>

ConfidenceNext ==
    \/ IngredientCalculateConfidence
    \/ InstructionCalculateConfidence
    \/ MetadataCalculateConfidence
    \/ CalculateLinguisticScore
    \/ CalculateInstructionScore
    \/ CalculateMetadataScore
    \/ CalculateIngredientScore
SpecConfidence == ConfidenceInit /\ [][ConfidenceNext]_vars

(***************************************************************************)
(* Claims about the confidence and score functions                         *)
(***************************************************************************)
\* the text starts with one of the analyzer's stop patterns
StartsWithStopPattern(text) ==
    \E pattern \in AnalyzerStopPatterns :
        StartsWith(Strip(Lower(text)), pattern)

\* C15: calculate_instruction_score returns exactly 0 for every text that
\* starts with a known non-instruction phrase ("Tip:", "Note:",
\* "Variation:"), whatever verbs, temporal markers and sentences follow.
C15_StopPatternVetoesScore ==
    (Calculated("calculate_instruction_score")
        /\ StartsWithStopPattern(fArgs.text)) =>
        fResult.value = Zero

\* 0.0 <= value <= 1.0
InUnitInterval(value) == FLe(Zero, value) /\ FLe(value, One)

\* the component scores the function weights and sums for the text
ComponentScores(function, text) ==
    CASE function = "ingredient_calculate_confidence" ->
            ingredient_components(text)
      [] function = "instruction_calculate_confidence" ->
            instruction_components(text)
      [] function = "calculate_instruction_score" ->
            <<_calculate_verb_presence(Lower(text)),
              _calculate_temporal_score(Lower(text)),
              _analyze_sentence_structure(text),
              _check_stop_patterns(Lower(text))>>
      [] function = "calculate_metadata_score" -> metadata_components(text)
      [] function = "calculate_ingredient_score" ->
            ingredient_score_components(text)
      [] OTHER -> <<>>

\* C20: each pattern detector's calculate_confidence (ingredient,
\* instruction, and metadata for every field type) and each linguistic
\* analyzer's calculate_*_score returns a value in [0.0, 1.0] for every
\* text, and every component score that is weighted into the sum lies in
\* [0, 1] as well.
C20_ScoresWithinUnitInterval ==
    (fCall \in ScoreFunctions /\ fResult.status = "returned") =>
        /\ InUnitInterval(fResult.value)
        /\ Len(Strip(fArgs.text)) >= 10 =>
              \A n \in DOMAIN ComponentScores(fCall, fArgs.text) :
                  InUnitInterval(ComponentScores(fCall, fArgs.text)[n])

\* calculate_linguistic_score was called on a text whose sum, with the 0.5
\* it adds, is above 1, and returned 1
C20_Witness ==
    /\ Calculated("calculate_linguistic_score")
    /\ Len(Strip(fArgs.text)) >= 10
    /\ FLt(One, FAdd(linguistic_score_sum(StrippedLines(fArgs.text)),
                     Frac(1, 2)))
    /\ fResult.value = One

\* the three pattern detectors' calculate_confidence
DetectorFunctions ==
    {"ingredient_calculate_confidence", "instruction_calculate_confidence",
     "metadata_calculate_confidence"}

\* the length below which a detector's calculate_confidence returns at once
ShortestScored(function) ==
    IF function = "metadata_calculate_confidence" THEN 3 ELSE 10

\* C21: each pattern detector's calculate_confidence returns exactly 0.0,
\* and does not raise, for the empty string and for every text of fewer
\* than 10 characters (fewer than 3 for the metadata detector), whatever
\* the component scores of the text would have been.
C21_ShortTextScoresZero ==
    (/\ fCall \in DetectorFunctions
     /\ Len(fArgs.text) < ShortestScored(fCall)) =>
        fResult = Returned(Zero)

\* the ingredient detector returned 0.0 for a text of fewer than 10
\* characters whose weighted components are above 0
C21_Witness ==
    /\ Calculated("ingredient_calculate_confidence")
    /\ 0 < Len(fArgs.text) /\ Len(fArgs.text) < 10
    /\ FLt(Zero, Weighted(ingredient_components(fArgs.text),
                          ingredient_weights))
    /\ fResult.value = Zero

(***************************************************************************)
(* core/extractor.py: extract_from_section on a section of sibling         *)
(* elements that carry no class, id or itemprop attribute                  *)
(***************************************************************************)
\* the strings inside an element, in document order
element_strings(elem) ==
    IF elem.name \in ListTags THEN elem.items ELSE <<elem.text>>

\* tag.get_text(separator="\n", strip=True)
get_text(elems) ==
    LET RECURSIVE Strings(_)
        Strings(k) ==
            IF k > Len(elems) THEN <<>>
            ELSE element_strings(elems[k]) \o Strings(k + 1)
        stripped == [k \in 1..Len(Strings(1)) |-> Strip(Strings(1)[k])]
    IN  Join(SelectSeq(stripped, LAMBDA s : s # ""), "\n")

\* HTMLParser.extract_text(soup)
extract_text(soup) == JoinLines(StrippedLines(get_text(soup)))

\* IngredientStructuralDetector.HEADER_PATTERN
HEADER_PATTERN ==
    Alt(<<Cat(<<WordB, Lit("ingredient"), Opt(Lit("s")), WordB>>),
          Cat(<<WordB, Lit("what you"), Opt(Lit("'ll")), Lit(" need"), WordB>>),
          Cat(<<WordB, Lit("you"), Alt(<<Lit("'ll"), Lit(" will")>>),
                Lit(" need"), WordB>>),
          Cat(<<WordB, Lit("shopping list"), WordB>>),
          Cat(<<WordB, Lit("grocery list"), WordB>>),
          Cat(<<WordB, Lit("for "), Alt(<<Lit("the"), Lit("this")>>), Lit(" "),
                Alt(<<Lit("recipe"), Lit("dish")>>), WordB>>),
          Cat(<<WordB, Lit("for the "), Plus(Cls(WordChars)), WordB>>)>>)

\* the measurement_pattern of _find_list_based_zones
ListMeasurementPattern ==
    Cat(<<WordB, Number, Star(Cls(Spaces \cup {"/"} \cup Digits)), Star(Space),
          Words(<<"cup", "tbsp", "tsp", "oz", "lb", "g", "kg", "ml", "l">>),
          Opt(Lit("s")), WordB>>)

\* an IngredientZone on the element at position elem; confidence in hundredths
IngredientZone(elem, detection_method, confidence) ==
    [elem |-> elem, detection_method |-> detection_method,
     confidence |-> confidence]

HeaderTagOrder == <<"h1", "h2", "h3", "h4", "h5", "h6">>

\* IngredientStructuralDetector._find_header_based_zones(soup)
_find_header_based_zones(soup) ==
    LET RECURSIVE Headers(_, _)
        Headers(t, i) ==
            IF t > Len(HeaderTagOrder) THEN <<>>
            ELSE IF i > Len(soup) THEN Headers(t + 1, 1)
            ELSE (IF /\ soup[i].name = HeaderTagOrder[t]
                     /\ ReSearch(HEADER_PATTERN, Lower(Strip(soup[i].text)))
                     /\ i < Len(soup)
                  THEN <<IngredientZone(i + 1, "header_based",
                            IF soup[i + 1].name \in {"ul", "ol"} THEN 85
                            ELSE IF soup[i + 1].name \in {"div", "section"}
                            THEN 80 ELSE 75)>>
                  ELSE <<>>) \o Headers(t, i + 1)
    IN  Headers(1, 1)

\* IngredientStructuralDetector._find_list_based_zones(soup)
_find_list_based_zones(soup) ==
    LET with_measurement(items) ==
            Cardinality({k \in 1..Len(items) :
                ReSearch(ListMeasurementPattern, Lower(items[k]))})
        RECURSIVE Lists(_)
        Lists(i) ==
            IF i > Len(soup) THEN <<>>
            ELSE (IF soup[i].name \in ListTags /\ Len(soup[i].items) >= 2
                  THEN LET items == soup[i].items
                           count == with_measurement(items)
                       IN  IF 2 * count >= Len(items)
                           THEN <<IngredientZone(i, "list_based", 75)>>
                           ELSE IF 10 * count >= 3 * Len(items)
                           THEN <<IngredientZone(i, "list_based", 70)>>
                           ELSE <<>>
                  ELSE <<>>) \o Lists(i + 1)
    IN  Lists(1)

\* IngredientStructuralDetector._find_position_based_zones(soup)
_find_position_based_zones(soup) ==
    LET all_lists == find_all(soup, ListTags)
    IN  IF Len(all_lists) >= 2
        THEN <<IngredientZone(all_lists[1], "position_heuristic", 65)>>
        ELSE <<>>

\* a score between 0 and 1 in hundredths, rounded down
Hundredths(score) == (score.num * 100) \div score.den

\* the zones IngredientStructuralDetector's strategies find in the soup, in
\* strategy order, duplicates removed, each with the text and the scores
\* extract_with_patterns computes for it; the schema.org, class, id and
\* paragraph-class strategies find nothing in elements without attributes
found_ingredient_zones(soup) ==
    LET zones == _deduplicate_zones(_find_header_based_zones(soup)
                                        \o _find_list_based_zones(soup)
                                        \o _find_position_based_zones(soup))
    IN  [n \in 1..Len(zones) |->
            LET ingredients_text == get_text(<<soup[zones[n].elem]>>)
            IN  [detection_method |-> zones[n].detection_method,
                 confidence |-> zones[n].confidence,
                 text |-> ingredients_text,
                 pattern_confidence |->
                    Hundredths(ingredient_calculate_confidence(ingredients_text)),
                 linguistic_score |->
                    Hundredths(calculate_ingredient_score(ingredients_text))]]

\* what _extract_legacy finds in the soup, with the scores extract_with_patterns
\* computes for it; every section has a list with measurements, so that
\* _extract_from_text is not reached
legacy_ingredients(soup) ==
    LET ingredients == _extract_legacy(soup, PyNone)
    IN  [text |-> ingredients,
         pattern_confidence |->
            IF Truthy(ingredients)
            THEN Hundredths(ingredient_calculate_confidence(ingredients.s))
            ELSE 0,
         linguistic_score |->
            IF Truthy(ingredients)
            THEN Hundredths(calculate_ingredient_score(ingredients.s))
            ELSE 0]

\* the locals of EPUBRecipeExtractor.extract_from_section
section_locals(soup, title) ==
    [text |-> extract_text(soup),
     valid |-> is_valid_recipe(extract_text(soup), title).valid,
     recipe |->
        new_recipe(title,
                   ingredients_extract(found_ingredient_zones(soup),
                                       legacy_ingredients(soup), TRUE),
                   instructions_extract(soup),
                   metadata_extract(extract_text(soup), title))]

\* the outcome of extract_from_section once the recipe is scored
section_outcome(recipe, quality_score, min_quality_score) ==
    IF below_threshold(quality_score, min_quality_score)
    THEN Returned(PyNone)
    ELSE Returned([recipe EXCEPT !.quality_score = quality_score])

\* the outcome of extract_from_section given its locals
section_result(locals, min_quality_score) ==
    IF rejected(locals.valid) THEN Returned(PyNone)
    ELSE IF score_recipe_raises(locals.recipe) THEN Raised
    ELSE section_outcome(locals.recipe, score_recipe(locals.recipe),
                         min_quality_score)

\* EPUBRecipeExtractor.extract_from_section(section_soup, title)
extract_from_section(soup, title, min_quality_score) ==
    section_result(section_locals(soup, title), min_quality_score)

(***************************************************************************)
(* extract_from_section on the sections of the shape: a header, a list of  *)
(* ingredients, a header, a numbered list of steps                         *)
(***************************************************************************)
ScenarioTitle == "Grandma's Cake"

\* <h3>Ingredients</h3><ul>...</ul><h3>Instructions</h3><ol>...</ol>
ScenarioSoup ==
    <<Element("h3", <<>>, "Ingredients", <<>>), ShortList,
      Element("h3", <<>>, "Instructions", <<>>), StepList>>

LongStepList ==
    Element("ol", <<>>, "",
            <<"Preheat the oven to 350 and grease a round cake pan.",
              "Mix the flour, salt and eggs, pour into the pan and bake 30 minutes.">>)

SectionShapes ==
    {<<Element("h3", <<>>, ingredients_header, <<>>), ingredients,
       Element("h3", <<>>, instructions_header, <<>>), steps>> \o closing :
        ingredients_header \in {"Ingredients", "What you need"},
        ingredients \in {ShortList, LongList},
        instructions_header \in {"Instructions", "Method"},
        steps \in {StepList, LongStepList},
        closing \in {<<>>, <<PlainParagraph>>}}

SectionTitles == {ScenarioTitle, "Introduction", "Kosher Salt"}

\* ExtractionConfig.min_quality_score: the default and a stricter one
QualityThresholds == {20, 60}

SectionCalls ==
    {[function |-> "extract_from_section", soup |-> soup, title |-> title,
      min_quality_score |-> threshold] :
        soup \in SectionShapes, title \in SectionTitles,
        threshold \in QualityThresholds}

SectionInit ==
    /\ fCall = None
    /\ fArgs \in SectionCalls
    /\ fResult = Pending
    /\ ScorerIdle
    /\ ValidatorIdle
    /\ ExtractorIdle
    /\ PipelineIdle

\* EPUBRecipeExtractor.extract_from_section(section_soup, title)
ExtractFromSection ==
    /\ fCall = None
    /\ fArgs.function = "extract_from_section"
    /\ fCall' = "extract_from_section"
    /\ fResult' = extract_from_section(fArgs.soup, fArgs.title,
                                       fArgs.min_quality_score)
    /\ UNCHANGED <<fArgs, scorerVars, validatorVars, extractorVars,
                   pipelineVars>>

SectionNext == ExtractFromSection
SpecSection == SectionInit /\ [][SectionNext]_vars

(***************************************************************************)
(* Claims about extract_from_section                                       *)
(***************************************************************************)
\* C19: for the section titled "Grandma's Cake" with an Ingredients header, the
\* list "2 cups flour", "1 tsp salt", "3 eggs", an Instructions header and the
\* numbered list "Preheat oven to 350.", "Mix and bake 30 minutes.", the
\* section is valid, ingredients and instructions are both extracted, and
\* extract_from_section returns a Recipe whose quality_score is above 60.
C19_ScenarioYieldsRecipe ==
    (/\ fCall = "extract_from_section"
     /\ fArgs.soup = ScenarioSoup
     /\ fArgs.title = ScenarioTitle) =>
        LET locals == section_locals(ScenarioSoup, ScenarioTitle)
        IN  /\ locals.valid
            /\ Truthy(locals.recipe.ingredients)
            /\ Truthy(locals.recipe.instructions)
            /\ fResult.status = "returned"
            /\ fResult.value # PyNone
            /\ fResult.value.quality_score > 60

(***************************************************************************)
(* Calls of the detectors, the analyzers and the scorer one after another  *)
(* on the same objects: fArgs holds the objects the callers pass (a text,  *)
(* a Recipe and a list of zones), fResult the log of the calls made, each  *)
(* with the argument as the call found it, what the call gave, and the     *)
(* argument as the call left it                                            *)
(***************************************************************************)
MaxCalls == 3

\* QualityScorer.score_recipe reads the fields of the recipe and assigns to
\* none of them: the recipe after the call
recipe_after_scoring(recipe) == recipe

\* zones.sort(...) on the list passed in, instead of sorted(zones, ...)
zones_sorted_in_place(zones) == SortByConfidence(zones)

\* _deduplicate_zones builds new lists (sorted(zones, ...), unique_zones,
\* list(seen_elements.values())); find_ingredient_zones sorts the list it got
\* from _deduplicate_zones: the list passed in after the call
zones_after_deduplicate(zones) == zones

\* score_recipe(recipe), with the exception it may raise
score_recipe_outcome(recipe) ==
    IF score_recipe_raises(recipe) THEN Raised
    ELSE Returned(score_recipe(recipe))

RepeatTexts ==
    {"2 cups fresh chopped basil", "Tip: Stir the sauce until thick."}

RepeatRecipes ==
    {[ingredients |-> PyStr("- 2 cups flour\n- 1 tsp salt"),
      instructions |-> PyNone, serves |-> PyStr("4-6"), prep_time |-> PyNone,
      cook_time |-> PyNone, cooking_method |-> PyStr("bake"),
      protein_type |-> PyNone],
     [ingredients |-> PyNone, instructions |-> PyNone, serves |-> PyNone,
      prep_time |-> PyStr("15"), cook_time |-> PyNone,
      cooking_method |-> PyNone, protein_type |-> PyNone]}

\* lists of proposed zones: none, a list inside its container with the
\* container second, and two zones on one element after another zone
RepeatZones ==
    {<<>>,
     <<[elem |-> 2, detection_method |-> "list_structure", confidence |-> 75],
       [elem |-> 1, detection_method |-> "css_class", confidence |-> 90]>>,
     <<[elem |-> 3, detection_method |-> "css_class", confidence |-> 90],
       [elem |-> 5, detection_method |-> "header", confidence |-> 85],
       [elem |-> 5, detection_method |-> "list_structure", confidence |-> 75]>>}

RepeatObjects == [text : RepeatTexts, recipe : RepeatRecipes, zones : RepeatZones]

Logged(function, input, output, left) ==
    [function |-> function, input |-> input, output |-> output, left |-> left]

RepeatInit ==
    /\ fCall = None
    /\ fArgs \in RepeatObjects
    /\ fResult = <<>>
    /\ ScorerIdle
    /\ ValidatorIdle
    /\ ExtractorIdle
    /\ PipelineIdle

\* IngredientPatternDetector.calculate_confidence(text)
RepeatCalculateConfidence ==
    /\ Len(fResult) < MaxCalls
    /\ fCall' = "ingredient_calculate_confidence"
    /\ fResult' = Append(fResult,
                         Logged("ingredient_calculate_confidence", fArgs.text,
                                Returned(ingredient_calculate_confidence(fArgs.text)),
                                fArgs.text))
    /\ UNCHANGED <<fArgs, scorerVars, validatorVars, extractorVars,
                   pipelineVars>>

\* InstructionLinguisticAnalyzer.calculate_instruction_score(text)
RepeatCalculateInstructionScore ==
    /\ Len(fResult) < MaxCalls
    /\ fCall' = "calculate_instruction_score"
    /\ fResult' = Append(fResult,
                         Logged("calculate_instruction_score", fArgs.text,
                                Returned(calculate_instruction_score(fArgs.text)),
                                fArgs.text))
    /\ UNCHANGED <<fArgs, scorerVars, validatorVars, extractorVars,
                   pipelineVars>>

\* QualityScorer.score_recipe(recipe)
RepeatScoreRecipe ==
    /\ Len(fResult) < MaxCalls
    /\ fCall' = "score_recipe"
    /\ fArgs' = [fArgs EXCEPT !.recipe = recipe_after_scoring(@)]
    /\ fResult' = Append(fResult,
                         Logged("score_recipe", fArgs.recipe,
                                score_recipe_outcome(fArgs.recipe),
                                fArgs'.recipe))
    /\ UNCHANGED <<scorerVars, validatorVars, extractorVars, pipelineVars>>

\* IngredientStructuralDetector.find_ingredient_zones, from the zones its
\* strategies propose on
RepeatFindIngredientZones ==
    /\ Len(fResult) < MaxCalls
    /\ fCall' = "find_ingredient_zones"
    /\ fArgs' = [fArgs EXCEPT !.zones = zones_after_deduplicate(@)]
    /\ fResult' = Append(fResult,
                         Logged("find_ingredient_zones", fArgs.zones,
                                Returned(find_zones("ingredients", fArgs.zones)),
                                fArgs'.zones))
    /\ UNCHANGED <<scorerVars, validatorVars, extractorVars, pipelineVars>>

\* MetadataStructuralDetector._deduplicate_zones(zones)
RepeatDeduplicateZones ==
    /\ Len(fResult) < MaxCalls
    /\ fCall' = "_deduplicate_zones"
    /\ fArgs' = [fArgs EXCEPT !.zones = zones_after_deduplicate(@)]
    /\ fResult' = Append(fResult,
                         Logged("_deduplicate_zones", fArgs.zones,
                                Returned(metadata_deduplicate_zones(fArgs.zones)),
                                fArgs'.zones))
    /\ UNCHANGED <<scorerVars, validatorVars, extractorVars, pipelineVars>>

RepeatNext ==
    \/ RepeatCalculateConfidence
    \/ RepeatCalculateInstructionScore
    \/ RepeatScoreRecipe
    \/ RepeatFindIngredientZones
    \/ RepeatDeduplicateZones

SpecRepeat == RepeatInit /\ [][RepeatNext]_vars

IngredientText(v) == IF v.kind = "tuple" THEN v.text ELSE v

\* C23: in extract_from_epub with the default IngredientsExtractor, a
\* validated section for which the ingredients extractor finds no ingredient
\* text is skipped: the instructions and metadata extractors and the scorer
\* are not called for it and no Recipe is appended, so no Recipe in the
\* returned list has absent ingredients.
C23_SectionWithoutIngredientsSkipped ==
    (InEpub /\ pSetup.wiring = "IngredientsExtractor") =>
        /\ pc \in {"instructions", "metadata", "score", "raised"} =>
                Truthy(IngredientText(pLocals.ingredients))
        /\ \A n \in 1..Len(pRecipes) :
                Truthy(IngredientText(pRecipes[n].ingredients))

(***************************************************************************)
(* Claims about the metadata of a failed extraction                        *)
(***************************************************************************)
\* C24: whenever a component extractor returns no text (None), the metadata
\* it returns reports no successful strategy: strategy is None and confidence
\* and linguistic_score are 0.0; the strategy and scores of a zone that was
\* evaluated and rejected are not reported with a failed extraction.
C24_FailedExtractionReportsNoStrategy ==
    (PatternCallReturned /\ xResult.value.text = PyNone) =>
        /\ xResult.value.meta.strategy = None
        /\ xResult.value.meta.confidence = 0
        /\ xResult.value.meta.linguistic_score = 0

(***************************************************************************)
(* Claims about nested zones in the result of the metadata detector        *)
(***************************************************************************)
\* C25: the list find_metadata_zones returns contains no two zones of which
\* one's element is an ancestor of the other's, also when a container holds
\* two or more separately detected zones.
C25_NoNestedMetadataZones ==
    (Detected /\ fArgs.family = "metadata") =>
        \A n, m \in 1..Len(fResult.value) :
            fResult.value[n].elem \notin Ancestors(fResult.value[m].elem)

(***************************************************************************)
(* utils/html.py: HTMLParser.split_by_headers on a body of sibling         *)
(* elements. An element is [name, text]; a section of the result is the    *)
(* title and the positions, in the document, of the elements copied into   *)
(* its soup (the whole document when it has no header).                    *)
(***************************************************************************)
MaxSiblings == 4

SplitElements ==
    {[name |-> "h2", text |-> "Pancakes"],
     [name |-> "h3", text |-> "Crepes"],
     [name |-> "h3", text |-> "12"],
     [name |-> "h4", text |-> "Variation"],
     [name |-> "p", text |-> "Mix the flour and the milk."]}

HeaderLevels ==
    [h1 |-> 1, h2 |-> 2, h3 |-> 3, h4 |-> 4, h5 |-> 5]

\* soup.find_all(["h1", "h2", "h3", "h4", "h5"]), as positions in the body
all_headers(soup) ==
    {i \in 1..Len(soup) : soup[i].name \in DOMAIN HeaderLevels}

\* int(h.name[1])
header_level(soup, i) == HeaderLevels[soup[i].name]

\* level_counts.get(level, 0)
level_count(soup, level) ==
    Cardinality({i \in all_headers(soup) : header_level(soup, i) = level})

\* the first level of [2, 3, 4, 1, 5] with at least 3 headers, or 3
split_level(soup) ==
    LET order == <<2, 3, 4, 1, 5>>
        frequent == {k \in 1..5 : level_count(soup, order[k]) >= 3}
    IN  IF frequent = {} THEN 3
        ELSE order[CHOOSE k \in frequent : \A j \in frequent : k <= j]

\* the headers of the split level only
headers_at_split_level(soup) ==
    {i \in all_headers(soup) : header_level(soup, i) = split_level(soup)}

\* `headers`: the headers of the split level, or all headers when there is
\* none of that level
split_headers(soup) ==
    IF headers_at_split_level(soup) = {} THEN all_headers(soup)
    ELSE headers_at_split_level(soup)

\* str.isdigit()
isdigit(s) == Len(s) > 0 /\ \A k \in 1..Len(s) : Char(s, k) \in Digits

\* `if len(title) < 3 or title.isdigit(): continue`
title_skipped(title) == Len(title) < 3 \/ isdigit(title)

\* where the while loop over the siblings of header h stops: at the first
\* later sibling with the name of h that is one of `headers` after h, or
\* after the last sibling
section_end(soup, headers, h) ==
    LET stops == {j \in (h + 1)..Len(soup) :
                    /\ soup[j].name = soup[h].name
                    /\ j \in headers}
    IN  IF stops = {} THEN Len(soup) + 1
        ELSE CHOOSE j \in stops : \A k \in stops : j <= k

\* the section built for header h: the header and the siblings copied after
\* it
section_for_header(soup, headers, h) ==
    [title |-> soup[h].text,
     elements |-> [k \in 1..(section_end(soup, headers, h) - h) |-> h + k - 1]]

\* the sections for the headers from position h on, in document order
RECURSIVE sections_from(_, _, _)
sections_from(soup, headers, h) ==
    IF h > Len(soup) THEN <<>>
    ELSE IF h \notin headers \/ title_skipped(Strip(soup[h].text))
    THEN sections_from(soup, headers, h + 1)
    ELSE <<section_for_header(soup, headers, h)>>
            \o sections_from(soup, headers, h + 1)

\* title = section_title or extracted_title or "Untitled", extracted_title
\* being what _extract_title_from_content gives for the soup
headerless_title(section_title, extracted_title) ==
    IF Truthy(section_title) THEN section_title.s
    ELSE IF Truthy(extracted_title) THEN extracted_title.s
    ELSE "Untitled"

\* HTMLParser.split_by_headers(soup, section_title)
split_by_headers(soup, section_title, extracted_title) ==
    IF all_headers(soup) = {}
    THEN <<[title |-> headerless_title(section_title, extracted_title),
            elements |-> [k \in 1..Len(soup) |-> k]]>>
    ELSE sections_from(soup, split_headers(soup), 1)

SplitCalls ==
    [soup : UNION {[1..n -> SplitElements] : n \in 1..MaxSiblings},
     section_title : {PyNone, PyStr("Breakfast")},
     extracted_title : {PyNone, PyStr("Simple Pancakes")}]

SplitInit ==
    /\ fCall = None
    /\ fArgs \in SplitCalls
    /\ fResult = Pending
    /\ ScorerIdle
    /\ ValidatorIdle
    /\ ExtractorIdle
    /\ PipelineIdle

SplitByHeaders ==
    /\ fCall = None
    /\ fCall' = "split_by_headers"
    /\ fResult' = Returned(split_by_headers(fArgs.soup, fArgs.section_title,
                                            fArgs.extracted_title))
    /\ UNCHANGED <<fArgs, scorerVars, validatorVars, extractorVars,
                   pipelineVars>>

SplitNext == SplitByHeaders
SpecSplit == SplitInit /\ [][SplitNext]_vars

\* the positions of the elements copied into a section
Copied(sec) == {sec.elements[k] : k \in 1..Len(sec.elements)}

\* C26: the sections split_by_headers returns are pairwise disjoint: no
\* element of the document is copied into more than one section, each
\* section ending where the next header of the split begins, also when the
\* split falls back to the headers of all levels.
C26_SectionsDisjoint ==
    Calculated("split_by_headers") =>
        \A n, m \in 1..Len(fResult.value) :
            n # m => Copied(fResult.value[n]) \cap Copied(fResult.value[m]) = {}

(***************************************************************************)
(* Claims about the structured-list score of score_ingredients             *)
(***************************************************************************)
\* sum(1 for line in lines if re.match(r"^[-*\d]+[\.)]\s", line))
structured_lines(ingredients) ==
    Cardinality({n \in 1..Len(StrippedLines(ingredients)) :
                    ReMatch(StructuredLinePattern,
                            StrippedLines(ingredients)[n])})

\* the points score_ingredients adds for structure_ratio =
\* structured_lines / len(lines)
structure_points(structured, lines) ==
    IF lines = 0 THEN 0
    ELSE IF 10 * structured >= 7 * lines THEN 15
    ELSE IF 10 * structured >= 4 * lines THEN 10
    ELSE IF 10 * structured >= 2 * lines THEN 5
    ELSE 0

\* every line of the text is "- <item>"
DashedList(ingredients) ==
    /\ Len(StrippedLines(ingredients)) > 0
    /\ \A n \in 1..Len(StrippedLines(ingredients)) :
            /\ StartsWith(StrippedLines(ingredients)[n], "- ")
            /\ Len(StrippedLines(ingredients)[n]) > 2

\* C27: score_ingredients counts a line as structured when it starts with
\* '-', '*' or a number, so a text of "- <item>" lines, as the ingredients
\* extractor's list strategy formats it, has a structured-line ratio of 1.0
\* and gets the full 15 points for a structured list.
C27_DashedListFullyStructured ==
    (/\ sResult.status = "returned"
     /\ sRecipe.ingredients.kind = "str"
     /\ DashedList(sRecipe.ingredients.s)) =>
        /\ structured_lines(sRecipe.ingredients.s)
                = Len(StrippedLines(sRecipe.ingredients.s))
        /\ structure_points(structured_lines(sRecipe.ingredients.s),
                            Len(StrippedLines(sRecipe.ingredients.s))) = 15

(***************************************************************************)
(* Claims about the A/B comparison                                         *)
(***************************************************************************)
\* v is ingredient text of more than threshold characters
TextLongerThan(v, threshold) == v.kind = "str" /\ Len(v.s) > threshold

\* C28: in the comparison compare_extractors returns, old_success is True
\* exactly when the control extractor produced ingredient text longer than
\* success_threshold characters, new_success likewise for the treatment
\* extractor, and agreement is True exactly when the two flags are equal;
\* also when extract_from_epub passes in the control result it has computed.
C28_SuccessFlagsReflectText ==
    (InEpub /\ pLocals.ab_metadata # PyNone) =>
        /\ pLocals.ab_metadata.old_success <=>
                TextLongerThan(IngredientText(pLocals.ab_metadata.old_ingredients),
                               pSetup.success_threshold)
        /\ pLocals.ab_metadata.new_success <=>
                TextLongerThan(pLocals.ab_metadata.new_ingredients,
                               pSetup.success_threshold)
        /\ pLocals.ab_metadata.agreement <=>
                (pLocals.ab_metadata.old_success
                    = pLocals.ab_metadata.new_success)

(***************************************************************************)
(* Claims about pattern mode and legacy mode of the ingredients extractor  *)
(***************************************************************************)
\* what extract(soup, text, use_patterns=False) gives for the soup of the
\* call
LegacyModeResult == ingredients_extract(xFound, xLegacy, FALSE)

\* C29: pattern mode never loses recall relative to legacy mode: if
\* IngredientsExtractor.extract with use_patterns=False returns text for a
\* section, extract with use_patterns=True on the same section returns text
\* too, not None.
C29_PatternModeKeepsLegacyRecall ==
    (/\ xCall = "extract"
     /\ xResult.status = "returned"
     /\ Truthy(LegacyModeResult)) =>
        /\ xResult.value.kind = "tuple"
        /\ Truthy(xResult.value.text)

\* pattern mode on a soup whose zones are all rejected and in which the
\* legacy chain finds text: the text of the legacy chain is returned
C29_Witness ==
    /\ xCall = "extract"
    /\ xResult.status = "returned"
    /\ xFound # <<>>
    /\ ~BestZoneQualifies
    /\ Truthy(LegacyModeResult)
    /\ xResult.value.text = LegacyModeResult

(***************************************************************************)
(* scripts/multiprocessing_implementation.py: batch_process_parallel, the  *)
(* parent process and the worker processes of its ProcessPoolExecutor.     *)
(* fArgs holds the call (the number of files, max_workers) and what        *)
(* process_epub_worker will return for each file; fCall is where the       *)
(* parent is; fResult holds the state of the jobs, the locals of the       *)
(* parent and the database: the writes made to it and the processes that   *)
(* have a connection open for writing.                                     *)
(***************************************************************************)
MaxFiles == 3
MaxWorkers == 2

\* what process_epub_worker returns for a file: (epub_path, recipes, None)
\* or (epub_path, [], e)
WorkerOutcomes ==
    {[recipes |-> 2, error |-> FALSE],
     [recipes |-> 0, error |-> FALSE],
     [recipes |-> 0, error |-> TRUE]}

BatchCalls ==
    UNION {[files : {n}, max_workers : 1..MaxWorkers,
            outcome : [1..n -> WorkerOutcomes]] : n \in 1..MaxFiles}

\* a write to the database by a process, for the result of a file
DbWrite(writer, file, recipes) ==
    [writer |-> writer, file |-> file, recipes |-> recipes]

\* a worker that saves the recipes it extracted itself
db_written_by_worker(db, file, outcome) ==
    IF outcome.error THEN db
    ELSE Append(db, DbWrite("worker", file, outcome.recipes))

\* process_epub_worker creates an extractor, calls extract_from_epub and
\* returns the recipes; it opens no database: the database after the worker
\* has run
db_after_worker(db, file, outcome) == db

BatchInit ==
    /\ fArgs \in BatchCalls
    /\ fCall = "as_completed"
    /\ fResult = [jobs |-> [f \in 1..fArgs.files |-> "queued"],
                  current |-> 0,
                  completed |-> 0,
                  all_recipes |-> 0,
                  errors |-> <<>>,
                  db |-> <<>>,
                  writing |-> {}]
    /\ ScorerIdle
    /\ ValidatorIdle
    /\ ExtractorIdle
    /\ PipelineIdle

JobsIn(status) == {f \in 1..fArgs.files : fResult.jobs[f] = status}

\* a worker process of the pool takes the next submitted job
WorkerStart ==
    /\ JobsIn("queued") # {}
    /\ Cardinality(JobsIn("running")) < fArgs.max_workers
    /\ \E f \in JobsIn("queued") :
        /\ \A g \in JobsIn("queued") : f <= g
        /\ fResult' = [fResult EXCEPT !.jobs[f] = "running"]
    /\ UNCHANGED <<fCall, fArgs, scorerVars, validatorVars, extractorVars,
                   pipelineVars>>

\* process_epub_worker(epub_file, min_quality) returns in its process
WorkerFinish ==
    /\ \E f \in JobsIn("running") :
        fResult' = [fResult EXCEPT
                        !.jobs[f] = "finished",
                        !.db = db_after_worker(@, f, fArgs.outcome[f])]
    /\ UNCHANGED <<fCall, fArgs, scorerVars, validatorVars, extractorVars,
                   pipelineVars>>

\* the parent: as_completed yields a finished future, future.result() is
\* unpacked, an error is appended to errors and recipes to all_recipes
ParentCollect ==
    /\ fCall = "as_completed"
    /\ \E f \in JobsIn("finished") :
        IF fArgs.outcome[f].error
        THEN /\ fResult' = [fResult EXCEPT
                                !.jobs[f] = "collected",
                                !.completed = @ + 1,
                                !.errors = Append(@, f)]
             /\ fCall' = fCall
        ELSE /\ fResult' = [fResult EXCEPT
                                !.jobs[f] = "collected",
                                !.completed = @ + 1,
                                !.current = f,
                                !.all_recipes = @ + fArgs.outcome[f].recipes]
             /\ fCall' = "save_recipes"
    /\ UNCHANGED <<fArgs, scorerVars, validatorVars, extractorVars,
                   pipelineVars>>

\* the parent: db.save_recipes(recipes) returns 0 for an empty list, and
\* opens a connection otherwise
ParentBeginSave ==
    /\ fCall = "save_recipes"
    /\ IF fArgs.outcome[fResult.current].recipes = 0
       THEN /\ fCall' = "as_completed"
            /\ fResult' = [fResult EXCEPT !.current = 0]
       ELSE /\ fCall' = "connection"
            /\ fResult' = [fResult EXCEPT !.writing = @ \cup {"parent"}]
    /\ UNCHANGED <<fArgs, scorerVars, validatorVars, extractorVars,
                   pipelineVars>>

\* the parent: the inserts are committed and the connection is closed, or
\* save_recipes raises and the exception is printed
ParentEndSave ==
    /\ fCall = "connection"
    /\ \E saved \in BOOLEAN :
        fResult' = [fResult EXCEPT
                        !.db = IF saved
                               THEN Append(@, DbWrite("parent", fResult.current,
                                                      fArgs.outcome[fResult.current].recipes))
                               ELSE @,
                        !.writing = @ \ {"parent"},
                        !.current = 0]
    /\ fCall' = "as_completed"
    /\ UNCHANGED <<fArgs, scorerVars, validatorVars, extractorVars,
                   pipelineVars>>

\* the parent: every future has been yielded, the pool is shut down and the
\* results are returned
ParentReturn ==
    /\ fCall = "as_completed"
    /\ JobsIn("collected") = 1..fArgs.files
    /\ fCall' = "returned"
    /\ UNCHANGED <<fArgs, fResult, scorerVars, validatorVars, extractorVars,
                   pipelineVars>>

BatchNext ==
    \/ WorkerStart
    \/ WorkerFinish
    \/ ParentCollect
    \/ ParentBeginSave
    \/ ParentEndSave
    \/ ParentReturn

SpecBatch == BatchInit /\ [][BatchNext]_vars

\* C30: in batch_process_parallel the storage is written under a
\* single-writer discipline: every write to the database is issued by the
\* parent process, for one completed result at a time, and no worker process
\* writes to the database.
C30_SingleWriter ==
    /\ \A n \in 1..Len(fResult.db) :
            /\ fResult.db[n].writer = "parent"
            /\ fResult.jobs[fResult.db[n].file] = "collected"
            /\ \A m \in 1..Len(fResult.db) :
                    fResult.db[m].file = fResult.db[n].file => m = n
    /\ fResult.writing \subseteq {"parent"}
    /\ fResult.writing # {} =>
            /\ fResult.current # 0
            /\ fResult.jobs[fResult.current] = "collected"

\* the parent has a connection open for the result of one file, after it
\* has saved the result of another, while a worker is still running
C30_Witness ==
    /\ fCall = "connection"
    /\ fResult.writing = {"parent"}
    /\ Len(fResult.db) >= 1
    /\ JobsIn("running") # {}

====
